---- MODULE Spec2Model ----
(***************************************************************************)
(* A model of the iam-go client-side caches.                               *)
(*                                                                         *)
(*   KeyRing / TokenVerifier : src/jwks/jwks.go      (Verifier)            *)
(*   TokenBroker             : src/oauth2/exchanger.go (Exchanger)         *)
(*   DecisionCache           : src/unnamed/part_011  (Authorizer)          *)
(*   Tenant service          : src/tenant/tenant.go  (Service)             *)
(*                                                                         *)
(* Every goroutine that calls into a component is a process of Procs; each *)
(* step of an action is one critical section or one network call of the    *)
(* Go code, so that the interleavings of the model are those the mutexes   *)
(* and the singleflight group of the code allow.                           *)
(***************************************************************************)
EXTENDS Integers, Sequences, FiniteSets, TLC

(***************************************************************************)
(* Bounds of the model.                                                    *)
(***************************************************************************)
MaxTicks == 2
MaxReqs == 2

\* the goroutines that call into a component
Procs == {1, 2}

(***************************************************************************)
(* Time.  time.Time is an integer number of ticks.  The zero time.Time of  *)
(* an unset lastFetch is tick 0, and the wall clock starts long after it   *)
(* (further than any refresh interval), as a real clock does.              *)
(*                                                                         *)
(* RefreshInterval is the interval the Verifier is configured with         *)
(* (WithRefreshInterval), in ticks.                                        *)
(***************************************************************************)
RefreshInterval == 1
ZeroTime == 0
StartTime == ZeroTime + RefreshInterval + 1
EndTime == StartTime + MaxTicks

None == "none"

(***************************************************************************)
(* base64.RawURLEncoding.DecodeString followed by big.Int.SetBytes, over a *)
(* small alphabet.  A string is a sequence of characters; every character  *)
(* carries 6 bits; a string of 4k+1 characters or with a character outside *)
(* the alphabet (such as the padding "=") is a CorruptInputError; the      *)
(* trailing bits that do not fill a byte are dropped.                      *)
(***************************************************************************)
B64Value == [A |-> 0, B |-> 1, Q |-> 16, g |-> 32, w |-> 48]
B64Chars == DOMAIN B64Value

RECURSIVE B64Bits(_)
B64Bits(s) ==
    IF s = <<>> THEN 0
    ELSE B64Bits(SubSeq(s, 1, Len(s) - 1)) * 64 + B64Value[s[Len(s)]]

B64Ok(s) ==
    /\ \A i \in 1..Len(s) : s[i] \in B64Chars
    /\ Len(s) % 4 # 1

\* the integer big.Int.SetBytes makes of the decoded bytes
B64Int(s) ==
    LET drop == (6 * Len(s)) % 8
    IN  B64Bits(s) \div (2 ^ drop)

\* a nil *rsa.PublicKey
NoKey == [N |-> -1, E |-> -1]

\* jwkKey.rsaPublicKey: the key, or nil when n or e does not decode
rsaPublicKey(jwk) ==
    IF ~B64Ok(jwk.n) \/ ~B64Ok(jwk.e) THEN NoKey
    ELSE [N |-> B64Int(jwk.n), E |-> B64Int(jwk.e)]

(***************************************************************************)
(* The remote key-set documents the identity provider publishes, in the    *)
(* order it rotates through them.                                          *)
(***************************************************************************)
ExpAQAB == <<"A", "Q", "A", "B">>
Jwk(kty, use, kid, n) == [kty |-> kty, use |-> use, kid |-> kid, n |-> n, e |-> ExpAQAB]

Docs ==
    << << Jwk("RSA", "sig", "k1", <<"A", "Q">>) >>,
       << Jwk("RSA", "sig", "k1", <<"A", "Q">>),
          Jwk("RSA", "", "k2", <<"A", "g">>),
          Jwk("EC", "sig", "k3", <<"A", "w">>),
          Jwk("RSA", "sig", "k4", <<"A", "=">>) >>,
       << Jwk("RSA", "enc", "k1", <<"A", "Q">>),
          Jwk("oct", "sig", "k2", <<"A", "g">>),
          Jwk("RSA", "sig", "k3", <<"A">>),
          Jwk("RSA", "sig", "k4", <<"A", "=">>) >> >>

DocIds == DOMAIN Docs

\* a refresh that keeps the RSA entries of any use
UsableAnyUse(jwk) == jwk.kty = "RSA" /\ rsaPublicKey(jwk) # NoKey

\* refresh, lines 146-156: the entries of a document that are kept
Usable(jwk) ==
    /\ ~(jwk.kty # "RSA" \/ (jwk.use # "" /\ jwk.use # "sig"))
    /\ rsaPublicKey(jwk) # NoKey

EmptyKeys == [k \in {} |-> NoKey]

\* the map the loop of refresh builds: a later entry of a kid overwrites
RECURSIVE BuildKeys(_)
BuildKeys(doc) ==
    IF doc = <<>> THEN EmptyKeys
    ELSE LET front == BuildKeys(SubSeq(doc, 1, Len(doc) - 1))
             jwk == doc[Len(doc)]
         IN  IF Usable(jwk)
             THEN [k \in (DOMAIN front) \cup {jwk.kid} |->
                      IF k = jwk.kid THEN rsaPublicKey(jwk) ELSE front[k]]
             ELSE front

(***************************************************************************)
(* The response of one GET of the key-set endpoint: a transport error, a   *)
(* status other than 200, a 200 whose body is not JSON, or a 200 with the  *)
(* document the provider publishes at that moment.                         *)
(***************************************************************************)
Resp(transport, status, json, doc) ==
    [transport |-> transport, status |-> status, json |-> json, doc |-> doc]

Responses(current) ==
    { Resp(TRUE, 0, FALSE, current),
      Resp(FALSE, 500, FALSE, current),
      Resp(FALSE, 200, FALSE, current),
      Resp(FALSE, 200, TRUE, current) }

\* a refresh without the check of line 158
RefreshOutcomeAllowsEmpty(resp) ==
    IF resp.transport THEN [err |-> "fetch", keys |-> EmptyKeys]
    ELSE IF resp.status # 200 THEN [err |-> "status", keys |-> EmptyKeys]
    ELSE IF ~resp.json THEN [err |-> "decode", keys |-> EmptyKeys]
    ELSE [err |-> None, keys |-> BuildKeys(Docs[resp.doc])]

\* refresh, lines 131-160: the error it returns, or the key map it will install
RefreshOutcome(resp) ==
    IF resp.transport THEN [err |-> "fetch", keys |-> EmptyKeys]
    ELSE IF resp.status # 200 THEN [err |-> "status", keys |-> EmptyKeys]
    ELSE IF ~resp.json THEN [err |-> "decode", keys |-> EmptyKeys]
    ELSE LET ks == BuildKeys(Docs[resp.doc])
         IN  IF Cardinality(DOMAIN ks) = 0
             THEN [err |-> "no valid RSA signing keys", keys |-> EmptyKeys]
             ELSE [err |-> None, keys |-> ks]

(***************************************************************************)
(* Tokens presented to Verify.  key is the public half of the key pair     *)
(* that signed the token (for HS256: the bytes used as the HMAC secret).   *)
(***************************************************************************)
K1 == rsaPublicKey(Docs[1][1])
K2 == rsaPublicKey(Docs[2][2])
NoExp == -1
ExpFuture == EndTime + 1
ExpSoon == StartTime + 1

Tok(wf, alg, kid, key, exp) ==
    [wf |-> wf, alg |-> alg, kid |-> kid, key |-> key, exp |-> exp, sub |-> "u1"]

Tokens ==
    << Tok(TRUE, "RS256", "k1", K1, ExpFuture),
       Tok(TRUE, "RS256", "k2", K2, ExpFuture),
       Tok(TRUE, "RS256", "k1", K2, ExpFuture),
       Tok(TRUE, "RS256", "", K1, ExpFuture),
       Tok(TRUE, "RS256", "k1", K1, ExpSoon),
       Tok(TRUE, "RS256", "k1", K1, NoExp),
       Tok(TRUE, "HS256", "k1", K1, ExpFuture),
       Tok(TRUE, "none", "k2", K2, ExpFuture),
       Tok(TRUE, "XX", "k1", K1, ExpFuture),
       Tok(FALSE, "RS256", "k1", K1, ExpFuture),
       Tok(TRUE, "PS256", "k1", K1, ExpFuture) >>

TokIds == DOMAIN Tokens

\* the algorithms jwt.GetSigningMethod knows; any other fails the parse
KnownAlgs == {"RS256", "RS384", "RS512", "PS256", "HS256", "none"}

\* a key function without the check of line 70
AnySigningMethod(alg) == TRUE

\* Verify, line 70: token.Method.(*jwt.SigningMethodRSA)
IsSigningMethodRSA(alg) == alg \in {"RS256", "RS384", "RS512"}

\* Parser.Parse up to the key function, with the check of line 70
ParseError(t) ==
    IF ~t.wf THEN "token is malformed"
    ELSE IF t.alg \notin KnownAlgs THEN "signing method (alg) is unavailable"
    ELSE IF ~IsSigningMethodRSA(t.alg) THEN "unexpected signing method"
    ELSE None

\* a Verify that does not compare the key
SignatureNotChecked(t, key) == t.alg \in {"RS256", "RS384", "RS512"}

\* SigningMethodRSA.Verify: the signature verifies under the public key of
\* the pair that signed, and under no other
SignatureValid(t, key) == IsSigningMethodRSA(t.alg) /\ key = t.key

\* a validator that checks the expiry only when the token carries one
ClaimsErrorExpiryOptional(t, at) ==
    IF t.exp # NoExp /\ ~(at < t.exp) THEN "token is expired" ELSE None

\* the validator of the parser, with jwt.WithExpirationRequired
ClaimsError(t, at) ==
    IF t.exp = NoExp THEN "exp claim is required"
    ELSE IF ~(at < t.exp) THEN "token is expired"
    ELSE None

\* a nil *iam.Claims, and the Claims of a token
NoClaims == [nil |-> TRUE, Subject |-> "", ExpiresAt |-> 0]
ClaimsOf(t) == [nil |-> FALSE, Subject |-> t.sub, ExpiresAt |-> t.exp]

\* return nil, err
Failure(e) == [ok |-> FALSE, err |-> e, claims |-> NoClaims]

\* Parser.Parse after the key function returned key, lines 76-85
VerifyOutcome(t, key, at) ==
    IF ~SignatureValid(t, key) THEN Failure("signature is invalid")
    ELSE IF ClaimsError(t, at) # None THEN Failure(ClaimsError(t, at))
    ELSE [ok |-> TRUE, err |-> None, claims |-> ClaimsOf(t)]


\* the comparison of line 92 turned around
IsStaleInverted(at, fetched) == RefreshInterval > at - fetched

\* getKey, line 92
IsStale(at, fetched) == at - fetched > RefreshInterval

(***************************************************************************)
(* State.                                                                  *)
(***************************************************************************)
VARIABLES
    now,        \* the wall clock
    remote,     \* the document the key-set endpoint serves
    keys,       \* Verifier.keys
    lastFetch,  \* Verifier.lastFetch
    mu,         \* Verifier.mu: [writer, readers]
    kp,         \* per goroutine: the position and locals of its Verify call
    installed,  \* history: the snapshot last written completely
    token,      \* Exchanger.token
    sf,         \* Exchanger.sf: the goroutine running the call of key "token", or 0
    bp,         \* per goroutine: the position and locals of its Exchanger call
    reqs,       \* history: the exchange requests that reached the issuer
    conc,       \* history: the goroutines whose current calls all ran at one instant
    cache,      \* Authorizer.cache
    ap,         \* per goroutine: the position and locals of its Authorizer call
    backendCalls, \* history: the CheckPermission calls the backend received
    payload,    \* the payload of the token last given to Verify
    vout,       \* what that Verify returned
    tcache,     \* tenant Service.cache
    tp,         \* per goroutine: the position and locals of its Resolve call
    resolveCalls \* history: the Resolve calls the tenant backend received

kvars == <<remote, keys, lastFetch, mu, kp, installed>>
bvars == <<token, sf, bp, reqs, conc>>
avars == <<cache, ap, backendCalls>>
pvars == <<payload, vout>>
tvars == <<tcache, tp, resolveCalls>>

vars == <<now, kvars, bvars, avars, pvars, tvars>>

(***************************************************************************)
(* The record of a goroutine in Verify.  pc, tok, found, key, stale,       *)
(* newKeys and res are the position, arguments, locals and result of the   *)
(* code; the other fields are history the properties read:                 *)
(*   young     the age read at line 92 was less than the refresh interval  *)
(*   failed    refresh returned an error                                   *)
(*   nfetch    GETs this call sent                                         *)
(*   hasKid    the document fetched holds the token's kid with its key     *)
(*   fdoc      the document fetched, until its keys are installed          *)
(*   absent2   the second lookup did not find the token's kid              *)
(*   snap      the kids of the map the second lookup read                  *)
(*   clobbered another refresh replaced the map between this call's        *)
(*             refresh and its second lookup                               *)
(*   resolved  getKey was entered                                          *)
(*   gk        the key getKey returned (NoKey: none, or an error)          *)
(*   live      the expiry of the token was in the future when line 69      *)
(*             validated it                                                *)
(***************************************************************************)
KIdle ==
    [pc |-> "idle", tok |-> 0, key |-> NoKey, found |-> FALSE, stale |-> FALSE,
     newKeys |-> EmptyKeys, res |-> Failure(None),
     young |-> FALSE, failed |-> FALSE, nfetch |-> 0, hasKid |-> FALSE,
     fdoc |-> 0, absent2 |-> FALSE, snap |-> {},
     clobbered |-> FALSE, resolved |-> FALSE, gk |-> NoKey, live |-> FALSE]

KInit ==
    /\ remote = 1
    /\ keys = EmptyKeys
    /\ lastFetch = ZeroTime
    /\ mu = [writer |-> 0, readers |-> {}]
    /\ kp = [p \in Procs |-> KIdle]
    /\ installed = [keys |-> EmptyKeys, at |-> ZeroTime]

Set(p, f) == kp' = [kp EXCEPT ![p] = f]

\* a reader that does not wait for the writer
CanRLockUnguarded == TRUE

\* sync.RWMutex
CanRLock == mu.writer = 0
CanLock == mu.writer = 0 /\ mu.readers = {}

(***************************************************************************)
(* What a call does to the key ring depends on its token only through the  *)
(* kid (once the token parsed): goroutine 1 presents every token, the      *)
(* others one token of each kid, which gives goroutine 1 every             *)
(* interference the key ring can suffer.                                   *)
(***************************************************************************)
Presents(p) == IF p = 1 THEN TokIds ELSE {1, 2, 4}

\* time passes
Tick ==
    /\ now < EndTime
    /\ now' = now + 1
    /\ UNCHANGED <<kvars, bvars, avars, pvars, tvars>>

\* the identity provider publishes its next key set
Rotate ==
    /\ remote < Len(Docs)
    /\ remote' = remote + 1
    /\ UNCHANGED <<now, keys, lastFetch, mu, kp, installed, bvars, avars, pvars, tvars>>

\* Verify, lines 66-75: parse the token and check its algorithm
Verify(p, t) ==
    /\ kp[p].pc \in {"idle", "done"}
    /\ LET e == ParseError(Tokens[t])
       IN  IF e # None
           THEN Set(p, [KIdle EXCEPT !.pc = "done", !.tok = t, !.res = Failure(e)])
           ELSE Set(p, [KIdle EXCEPT !.pc = "getKey", !.tok = t])
    /\ UNCHANGED <<now, remote, keys, lastFetch, mu, installed, bvars, avars, pvars, tvars>>

\* getKey, lines 90-91: RLock and the lookup of the kid
GetKeyLookup(p) ==
    /\ kp[p].pc = "getKey"
    /\ CanRLock
    /\ mu' = [mu EXCEPT !.readers = @ \cup {p}]
    /\ LET kid == Tokens[kp[p].tok].kid
           found == kid \in DOMAIN keys
       IN  Set(p, [kp[p] EXCEPT !.pc = "getKeyStale", !.resolved = TRUE,
                                !.found = found,
                                !.key = IF found THEN keys[kid] ELSE NoKey])
    /\ UNCHANGED <<now, remote, keys, lastFetch, installed, bvars, avars, pvars, tvars>>

\* a getKey that keeps the read lock while it refreshes
GetKeyStaleKeepsLock(p) ==
    /\ kp[p].pc = "getKeyStale"
    /\ LET stale == IsStale(now, lastFetch)
           hit == kp[p].found /\ ~stale
       IN  /\ mu' = IF hit THEN [mu EXCEPT !.readers = @ \ {p}] ELSE mu
           /\ Set(p, [kp[p] EXCEPT !.pc = IF hit THEN "verify" ELSE "fetch",
                                   !.stale = stale,
                                   !.young = now - lastFetch < RefreshInterval,
                                   !.gk = IF hit THEN kp[p].key ELSE NoKey])
    /\ UNCHANGED <<now, remote, keys, lastFetch, installed, bvars, avars, pvars, tvars>>

\* getKey, lines 92-97: the staleness test, RUnlock, and the cache hit
GetKeyStale(p) ==
    /\ kp[p].pc = "getKeyStale"
    /\ mu' = [mu EXCEPT !.readers = @ \ {p}]
    /\ LET stale == IsStale(now, lastFetch)
           hit == kp[p].found /\ ~stale
       IN  Set(p, [kp[p] EXCEPT !.pc = IF hit THEN "verify" ELSE "fetch",
                                !.stale = stale,
                                !.young = now - lastFetch < RefreshInterval,
                                !.gk = IF hit THEN kp[p].key ELSE NoKey])
    /\ UNCHANGED <<now, remote, keys, lastFetch, installed, bvars, avars, pvars, tvars>>

\* a getKey without the fallback of line 101
RefreshFailedNoFallback(c, err) == [c EXCEPT !.pc = "done", !.res = [ok |-> FALSE, err |-> err, claims |-> NoClaims]]

\* a getKey that, for an empty kid, falls back to a key of the map it holds
RefreshFailedAnyKey(c, err) ==
    IF c.found
    THEN [c EXCEPT !.pc = "verify", !.gk = c.key]
    ELSE IF Tokens[c.tok].kid = "" /\ keys # EmptyKeys
    THEN [c EXCEPT !.pc = "verify", !.gk = keys[CHOOSE k \in DOMAIN keys : TRUE]]
    ELSE [c EXCEPT !.pc = "done", !.res = Failure(err)]

\* getKey, lines 100-105: refresh failed; c is the record of the goroutine
RefreshFailed(c, err) ==
    IF c.found
    THEN [c EXCEPT !.pc = "verify", !.gk = c.key]
    ELSE [c EXCEPT !.pc = "done", !.res = Failure(err)]

\* refresh, lines 126-160, and its failure in getKey, lines 100-105
Fetch(p) ==
    /\ kp[p].pc = "fetch"
    /\ \E resp \in Responses(remote) :
         LET out == RefreshOutcome(resp)
             t == Tokens[kp[p].tok]
         IN  IF out.err # None
             THEN Set(p, [RefreshFailed(kp[p], out.err) EXCEPT
                              !.failed = TRUE, !.nfetch = @ + 1])
             ELSE Set(p, [kp[p] EXCEPT !.pc = "install", !.newKeys = out.keys,
                                      !.nfetch = @ + 1, !.fdoc = resp.doc,
                                      !.hasKid = /\ t.kid \in DOMAIN out.keys
                                                 /\ out.keys[t.kid] = t.key])
    /\ UNCHANGED <<now, remote, keys, lastFetch, mu, installed, bvars, avars, pvars, tvars>>

\* a refresh that keeps the key map already installed
InstallKeysFirstWins(p) ==
    /\ kp[p].pc = "install"
    /\ CanLock
    /\ mu' = [mu EXCEPT !.writer = p]
    /\ keys' = IF keys = EmptyKeys THEN kp[p].newKeys ELSE keys
    /\ kp' = [q \in Procs |->
                IF q = p THEN [kp[p] EXCEPT !.pc = "installTime", !.newKeys = EmptyKeys,
                                            !.fdoc = 0]
                ELSE kp[q]]
    /\ UNCHANGED <<now, remote, lastFetch, installed, bvars, avars, pvars, tvars>>

\* refresh, lines 162-163: Lock and the write of the key map
InstallKeys(p) ==
    /\ kp[p].pc = "install"
    /\ CanLock
    /\ mu' = [mu EXCEPT !.writer = p]
    /\ keys' = kp[p].newKeys
    /\ kp' = [q \in Procs |->
                IF q = p THEN [kp[p] EXCEPT !.pc = "installTime", !.newKeys = EmptyKeys,
                                            !.fdoc = 0]
                ELSE IF kp[q].pc = "reread" THEN [kp[q] EXCEPT !.clobbered = TRUE]
                ELSE kp[q]]
    /\ UNCHANGED <<now, remote, lastFetch, installed, bvars, avars, pvars, tvars>>

\* refresh, lines 164-165: the write of the fetch time and Unlock
InstallTime(p) ==
    /\ kp[p].pc = "installTime"
    /\ lastFetch' = now
    /\ mu' = [mu EXCEPT !.writer = 0]
    /\ installed' = [keys |-> keys, at |-> now]
    /\ Set(p, [kp[p] EXCEPT !.pc = "reread"])
    /\ UNCHANGED <<now, remote, keys, bvars, avars, pvars, tvars>>

\* a getKey that answers from its first lookup after the refresh
SecondLookupMissing(ks, kid) == {}

\* a getKey that falls back to any key for every kid
SecondLookupAnyKey(ks, kid) == {ks[k] : k \in DOMAIN ks}

\* a getKey whose fallback is one fixed key of the map
SecondLookupFixedKey(ks, kid) ==
    IF kid \in DOMAIN ks THEN {ks[kid]}
    ELSE IF kid = "" /\ ks # EmptyKeys THEN {ks[CHOOSE k \in DOMAIN ks : TRUE]}
    ELSE {}

\* getKey, lines 110-121: the keys the second lookup may return (the range
\* over a Go map starts anywhere); none is the error of line 121
SecondLookup(ks, kid) ==
    IF kid \in DOMAIN ks THEN {ks[kid]}
    ELSE IF kid = "" THEN {ks[k] : k \in DOMAIN ks}
    ELSE {}

\* getKey, lines 107-121: the lookup after a successful refresh
Reread(p) ==
    /\ kp[p].pc = "reread"
    /\ CanRLock
    /\ LET ks == SecondLookup(keys, Tokens[kp[p].tok].kid)
           absent == Tokens[kp[p].tok].kid \notin DOMAIN keys
       IN  IF ks # {}
           THEN \E k \in ks : Set(p, [kp[p] EXCEPT !.pc = "verify", !.gk = k,
                                                    !.absent2 = absent,
                                                    !.snap = DOMAIN keys])
           ELSE Set(p, [kp[p] EXCEPT !.pc = "done", !.absent2 = absent,
                                     !.snap = DOMAIN keys,
                                     !.res = Failure("key not found")])
    /\ UNCHANGED <<now, remote, keys, lastFetch, mu, installed, bvars, avars, pvars, tvars>>

\* Verify, lines 76-85: the signature, the expiry, the claims
Finish(p) ==
    /\ kp[p].pc = "verify"
    /\ LET t == Tokens[kp[p].tok]
       IN  Set(p, [kp[p] EXCEPT !.pc = "done",
                               !.res = VerifyOutcome(t, kp[p].gk, now),
                               !.live = t.exp # NoExp /\ t.exp > now])
    /\ UNCHANGED <<now, remote, keys, lastFetch, mu, installed, bvars, avars, pvars, tvars>>

KNext ==
    \/ Tick
    \/ Rotate
    \/ \E p \in Procs : \E t \in Presents(p) : Verify(p, t)
    \/ \E p \in Procs : GetKeyLookup(p)
    \/ \E p \in Procs : GetKeyStale(p)
    \/ \E p \in Procs : Fetch(p)
    \/ \E p \in Procs : InstallKeys(p)
    \/ \E p \in Procs : InstallTime(p)
    \/ \E p \in Procs : Reread(p)
    \/ \E p \in Procs : Finish(p)

(***************************************************************************)
(* TokenBroker: src/oauth2/exchanger.go.                                   *)
(*                                                                         *)
(* RefreshBuffer is the buffer the Exchanger is configured with            *)
(* (WithRefreshBuffer), in ticks; the issuer grants tokens that live less  *)
(* than the buffer and tokens that live longer.                            *)
(***************************************************************************)
RefreshBuffer == 2
ExpiresIns == {1, 4}

\* a nil *iam.OAuth2Token; otherwise at is the access token (the number of
\* the request the issuer answered with it), exp is ExpiresAt and ein is
\* ExpiresIn
NoToken == [at |-> 0, exp |-> 0, ein |-> 0]

\* the answer of the issuer to one POST
IssuerResp(transport, status, json, at, expiresIn) ==
    [transport |-> transport, status |-> status, json |-> json, at |-> at,
     expiresIn |-> expiresIn]

IssuerResponses(reqNo) ==
    { IssuerResp(TRUE, 0, FALSE, 0, 0),
      IssuerResp(FALSE, 500, FALSE, 0, 0),
      IssuerResp(FALSE, 200, FALSE, 0, 0),
      IssuerResp(FALSE, 200, TRUE, 0, 4) }
    \cup { IssuerResp(FALSE, 200, TRUE, reqNo, x) : x \in ExpiresIns }

\* an ExchangeToken that returns what it decoded together with the error
ExchangeOutcomePartial(resp, at) ==
    LET tok == [at |-> resp.at, exp |-> at + resp.expiresIn, ein |-> resp.expiresIn]
    IN  IF resp.transport THEN [err |-> "token request failed", tok |-> NoToken]
        ELSE IF resp.status # 200 THEN [err |-> "token endpoint returned", tok |-> tok]
        ELSE IF ~resp.json THEN [err |-> "failed to decode response", tok |-> NoToken]
        ELSE IF resp.at = 0 THEN [err |-> "empty access_token", tok |-> tok]
        ELSE [err |-> None, tok |-> tok]

\* ExchangeToken, lines 95-125: the error, or the token, made of a response
ExchangeOutcome(resp, at) ==
    IF resp.transport THEN [err |-> "token request failed", tok |-> NoToken]
    ELSE IF resp.status # 200 THEN [err |-> "token endpoint returned", tok |-> NoToken]
    ELSE IF ~resp.json THEN [err |-> "failed to decode response", tok |-> NoToken]
    ELSE IF resp.at = 0 THEN [err |-> "empty access_token", tok |-> NoToken]
    ELSE [err |-> None, tok |-> [at |-> resp.at, exp |-> at + resp.expiresIn,
                                 ein |-> resp.expiresIn]]

\* http.Client.Do of a request whose context is cancelled
Canceled == [err |-> "context canceled", tok |-> NoToken]

\* a fast path that forgets the refresh buffer
TokenValidNoBuffer(tok, at) == tok # NoToken /\ at < tok.exp

\* a fast path that serves the token up to its expiry
TokenValidAtExpiry(tok, at) == tok # NoToken /\ at <= tok.exp

\* GetCachedToken, line 131
TokenValid(tok, at) == tok # NoToken /\ at < tok.exp - RefreshBuffer

(***************************************************************************)
(* The record of a goroutine in the Exchanger.  op, pc, cancelled (its     *)
(* context), ctx (the goroutine whose context the running ExchangeToken    *)
(* was given), reqNo, exr (what ExchangeToken or sf.Do returned) and ret   *)
(* (what the call returned) are the code's; the rest is history:           *)
(*   slow    GetCachedToken found no valid cached token at line 131        *)
(*   sent    a request of this call reached the issuer                     *)
(*   joined  sf.Do shared the call another goroutine was running           *)
(*   lcan    ... whose context was cancelled after its request was sent    *)
(*   short   GetCachedToken began with a cached token whose lifetime        *)
(*           (ExpiresIn) is less than the refresh buffer                   *)
(*   prev    the token that was cached when this call cached its own       *)
(***************************************************************************)
NoResult == [err |-> None, tok |-> NoToken]

BIdle ==
    [op |-> "none", pc |-> "idle", cancelled |-> FALSE, reqNo |-> 0,
     exr |-> NoResult,
     ret |-> [err |-> None, at |-> 0],
     slow |-> FALSE, sent |-> FALSE, joined |-> FALSE, lcan |-> FALSE,
     short |-> FALSE, prev |-> NoToken]

BInit ==
    /\ token = NoToken
    /\ sf = 0
    /\ bp = [p \in Procs |-> BIdle]
    /\ reqs = 0
    /\ conc = {}

BSet(p, f) == bp' = [bp EXCEPT ![p] = f]

Running(p) == bp[p].pc \notin {"idle", "done"}

\* history: p begins a call; if every goroutine is then inside a call, the
\* current calls of all of them run concurrently
Begins(p, running) ==
    conc' = IF running /\ \A q \in Procs \ {p} : Running(q)
            THEN Procs
            ELSE conc \ {p}

\* the issuer is sent at most MaxReqs requests: a call begins only while
\* every call that may still send one has a request left
MaySend ==
    reqs + Cardinality({q \in Procs : bp[q].pc \in {"sfDo", "send"}}) < MaxReqs

\* GetCachedToken, lines 130-135: the fast path
GetCachedToken(p) ==
    /\ bp[p].pc \in {"idle", "done"}
    /\ MaySend
    /\ LET c == [BIdle EXCEPT !.op = "get",
                       !.short = token # NoToken /\ token.ein < RefreshBuffer]
       IN  IF TokenValid(token, now)
           THEN BSet(p, [c EXCEPT !.pc = "done",
                                  !.ret = [err |-> None, at |-> token.at]])
           ELSE BSet(p, [c EXCEPT !.pc = "sfDo", !.slow = TRUE])
    /\ Begins(p, ~TokenValid(token, now))
    /\ UNCHANGED <<now, kvars, avars, pvars, tvars, token, sf, reqs>>

\* ExchangeToken called directly, lines 75-93
ExchangeToken(p) ==
    /\ bp[p].pc \in {"idle", "done"}
    /\ MaySend
    /\ BSet(p, [BIdle EXCEPT !.op = "exchange", !.pc = "send"])
    /\ Begins(p, TRUE)
    /\ UNCHANGED <<now, kvars, avars, pvars, tvars, token, sf, reqs>>

\* the caller cancels the context it passed
Cancel(p) ==
    /\ bp[p].pc \notin {"idle", "done"}
    /\ ~bp[p].cancelled
    /\ BSet(p, [bp[p] EXCEPT !.cancelled = TRUE])
    /\ UNCHANGED <<now, kvars, avars, pvars, tvars, token, sf, reqs, conc>>

\* a group that coalesces nothing: every caller runs fn
SfDoAlwaysRuns(p) ==
    /\ bp[p].pc = "sfDo"
    /\ sf' = p
    /\ BSet(p, [bp[p] EXCEPT !.pc = "send"])
    /\ UNCHANGED <<now, kvars, avars, pvars, tvars, token, reqs, conc>>

\* singleflight.Group.Do, line 138: run fn, or share the call that is running
SfDo(p) ==
    /\ bp[p].pc = "sfDo"
    /\ IF sf = 0
       THEN /\ sf' = p
            /\ BSet(p, [bp[p] EXCEPT !.pc = "send"])
       ELSE /\ sf' = sf
            /\ BSet(p, [bp[p] EXCEPT !.pc = "joined", !.joined = TRUE])
    /\ UNCHANGED <<now, kvars, avars, pvars, tvars, token, reqs, conc>>

\* ExchangeToken, line 95: httpClient.Do sends the request, unless the
\* context is cancelled already
Send(p) ==
    /\ bp[p].pc = "send"
    /\ IF bp[p].cancelled
       THEN /\ BSet(p, [bp[p] EXCEPT !.pc = "returned", !.exr = Canceled])
            /\ reqs' = reqs
       ELSE /\ BSet(p, [bp[p] EXCEPT !.pc = "inflight", !.sent = TRUE,
                                    !.reqNo = reqs + 1])
            /\ reqs' = reqs + 1
    /\ UNCHANGED <<now, kvars, avars, pvars, tvars, token, sf, conc>>

\* ExchangeToken, lines 95-125: the answer, or the cancellation, arrives
Receive(p) ==
    /\ bp[p].pc = "inflight"
    /\ IF bp[p].cancelled
       THEN BSet(p, [bp[p] EXCEPT !.pc = "returned", !.exr = Canceled])
       ELSE \E resp \in IssuerResponses(bp[p].reqNo) :
              BSet(p, [bp[p] EXCEPT !.pc = "returned",
                                    !.exr = ExchangeOutcome(resp, now)])
    /\ UNCHANGED <<now, kvars, avars, pvars, tvars, token, sf, reqs, conc>>

\* an ExchangeToken that caches the token it was granted
ExchangeReturnCaches(p) ==
    /\ bp[p].pc = "returned"
    /\ bp[p].op = "exchange"
    /\ BSet(p, [bp[p] EXCEPT !.pc = "done", !.reqNo = 0, !.exr = NoResult,
                             !.ret = [err |-> bp[p].exr.err, at |-> bp[p].exr.tok.at]])
    /\ token' = IF bp[p].exr.err = None THEN bp[p].exr.tok ELSE token
    /\ UNCHANGED <<now, kvars, avars, pvars, tvars, sf, reqs, conc>>

\* ExchangeToken called directly returns
ExchangeReturn(p) ==
    /\ bp[p].pc = "returned"
    /\ bp[p].op = "exchange"
    /\ BSet(p, [bp[p] EXCEPT !.pc = "done", !.reqNo = 0, !.exr = NoResult,
                             !.ret = [err |-> bp[p].exr.err, at |-> bp[p].exr.tok.at]])
    /\ UNCHANGED <<now, kvars, avars, pvars, tvars, token, sf, reqs, conc>>

\* a group that hands the result to the goroutine that ran fn only: the
\* goroutines that joined are given a cancellation
SfDoneLeaderOnly(p) ==
    /\ bp[p].pc = "returned"
    /\ bp[p].op = "get"
    /\ sf = p
    /\ sf' = 0
    /\ bp' = [q \in Procs |->
                IF q = p THEN [bp[p] EXCEPT !.pc = "store"]
                ELSE IF bp[q].pc = "joined"
                THEN [bp[q] EXCEPT !.pc = "store", !.exr = Canceled]
                ELSE bp[q]]
    /\ UNCHANGED <<now, kvars, avars, pvars, tvars, token, reqs, conc>>

\* singleflight doCall after fn returned: the result is handed to the
\* goroutines that joined, and the call leaves the group
SfDone(p) ==
    /\ bp[p].pc = "returned"
    /\ bp[p].op = "get"
    /\ sf = p
    /\ sf' = 0
    /\ bp' = [q \in Procs |->
                IF q = p THEN [bp[p] EXCEPT !.pc = "store"]
                ELSE IF bp[q].pc = "joined"
                THEN [bp[q] EXCEPT !.pc = "store", !.exr = bp[p].exr,
                                   !.lcan = bp[p].cancelled /\ bp[p].sent]
                ELSE bp[q]]
    /\ UNCHANGED <<now, kvars, avars, pvars, tvars, token, reqs, conc>>

\* a GetCachedToken that drops the cached token when the exchange failed
StoreEvicts(p) ==
    /\ bp[p].pc = "store"
    /\ IF bp[p].exr.err # None
       THEN /\ BSet(p, [bp[p] EXCEPT !.pc = "done", !.reqNo = 0, !.exr = NoResult,
                                    !.ret = [err |-> bp[p].exr.err, at |-> 0]])
            /\ token' = NoToken
       ELSE /\ BSet(p, [bp[p] EXCEPT !.pc = "done", !.reqNo = 0, !.exr = NoResult,
                                    !.prev = token,
                                    !.ret = [err |-> None, at |-> bp[p].exr.tok.at]])
            /\ token' = bp[p].exr.tok
    /\ UNCHANGED <<now, kvars, avars, pvars, tvars, sf, reqs, conc>>

\* a GetCachedToken that keeps the cached token when it was issued later
\* than its own
StoreKeepsNewer(p) ==
    /\ bp[p].pc = "store"
    /\ IF bp[p].exr.err # None
       THEN /\ BSet(p, [bp[p] EXCEPT !.pc = "done", !.reqNo = 0, !.exr = NoResult,
                                    !.ret = [err |-> bp[p].exr.err, at |-> 0]])
            /\ token' = token
       ELSE /\ BSet(p, [bp[p] EXCEPT !.pc = "done", !.reqNo = 0, !.exr = NoResult,
                                    !.prev = token,
                                    !.ret = [err |-> None, at |-> bp[p].exr.tok.at]])
            /\ token' = IF token.at > bp[p].exr.tok.at THEN token ELSE bp[p].exr.tok
    /\ UNCHANGED <<now, kvars, avars, pvars, tvars, sf, reqs, conc>>

\* a GetCachedToken that answers a failed exchange with the cached token
\* while that token has not expired
StoreStaleFallback(p) ==
    /\ bp[p].pc = "store"
    /\ IF bp[p].exr.err # None
       THEN /\ BSet(p, [bp[p] EXCEPT !.pc = "done", !.reqNo = 0, !.exr = NoResult,
                                    !.ret = IF token # NoToken /\ now < token.exp
                                            THEN [err |-> None, at |-> token.at]
                                            ELSE [err |-> bp[p].exr.err, at |-> 0]])
            /\ token' = token
       ELSE /\ BSet(p, [bp[p] EXCEPT !.pc = "done", !.reqNo = 0, !.exr = NoResult,
                                    !.prev = token,
                                    !.ret = [err |-> None, at |-> bp[p].exr.tok.at]])
            /\ token' = bp[p].exr.tok
    /\ UNCHANGED <<now, kvars, avars, pvars, tvars, sf, reqs, conc>>

\* GetCachedToken, lines 141-150: return the error, or cache the token
Store(p) ==
    /\ bp[p].pc = "store"
    /\ IF bp[p].exr.err # None
       THEN /\ BSet(p, [bp[p] EXCEPT !.pc = "done", !.reqNo = 0, !.exr = NoResult,
                                    !.ret = [err |-> bp[p].exr.err, at |-> 0]])
            /\ token' = token
       ELSE /\ BSet(p, [bp[p] EXCEPT !.pc = "done", !.reqNo = 0, !.exr = NoResult,
                                    !.prev = token,
                                    !.ret = [err |-> None, at |-> bp[p].exr.tok.at]])
            /\ token' = bp[p].exr.tok
    /\ UNCHANGED <<now, kvars, avars, pvars, tvars, sf, reqs, conc>>

BNext ==
    \/ Tick
    \/ \E p \in Procs : GetCachedToken(p)
    \/ \E p \in Procs : ExchangeToken(p)
    \/ \E p \in Procs : Cancel(p)
    \/ \E p \in Procs : SfDo(p)
    \/ \E p \in Procs : Send(p)
    \/ \E p \in Procs : Receive(p)
    \/ \E p \in Procs : ExchangeReturn(p)
    \/ \E p \in Procs : SfDone(p)
    \/ \E p \in Procs : Store(p)

(***************************************************************************)
(* DecisionCache: the authz package (src/unnamed/part_011, Authorizer).    *)
(*                                                                         *)
(* Strings are sequences of characters, so that cacheKey is the            *)
(* concatenation the code makes.  CacheTTL is the TTL the Authorizer is    *)
(* configured with (WithCacheTTL), in ticks.                               *)
(***************************************************************************)
CacheTTL == 2
MaxCalls == 3

Colon == <<":">>
UserIDs == {<<"u">>, <<>>}
TenantIDs == {<<"t">>, <<"t", ":", "a">>, <<>>}
Permissions == {<<"r">>, <<"a", ":", "r">>}
Resources == {<<"a">>}
Actions == {<<"r">>}

\* the (subject, tenant, permission) triples Check is called with: two
\* permissions of one tenant, a permission of a second tenant whose key is
\* the key of one of them, a triple without a subject and one without a
\* tenant
Triple(u, t, perm) == [user |-> u, tenant |-> t, perm |-> perm]
Triples ==
    {tr \in {Triple(u, t, perm) : u \in UserIDs, t \in TenantIDs, perm \in Permissions} :
        /\ tr.tenant # <<"t">> => tr.perm = <<"r">>
        /\ tr.user = <<>> => tr.tenant = <<"t">> /\ tr.perm = <<"r">>}
NoTriple == Triple(<<>>, <<>>, <<>>)

\* the (subject, tenant) pairs GetPermissions is called with, and the one
\* CheckResource is called with
Contexts == {<<tr.user, tr.tenant>> : tr \in {x \in Triples : x.tenant # <<"t", ":", "a">>}}
ResourceContexts == {c \in Contexts : c[1] # <<>> /\ c[2] # <<>>}

\* the calls each goroutine makes: both call Check, goroutine 1 presents the
\* triples without a subject or a tenant and calls CheckResource and
\* GetPermissions, goroutine 2 calls ClearCache
Requests(p) ==
    IF p = 1 THEN Triples
    ELSE {tr \in Triples : tr.user # <<>> /\ tr.tenant # <<>>}
ResourceCallers == {1}
PermissionCallers == {1}
ClearCallers == {2}

\* cacheKey, lines 127-129
cacheKey(userID, tenantID, permission) ==
    userID \o Colon \o tenantID \o Colon \o permission

KeyOf(tr) == cacheKey(tr.user, tr.tenant, tr.perm)

\* a CheckResource that joins resource and action without the colon
ResourcePermissionNoColon(resource, action) == resource \o action

\* CheckResource, line 80
ResourcePermission(resource, action) == resource \o Colon \o action

\* a test of the context that looks at the subject only
MissingContextUserOnly(userID, tenantID) == userID = <<>>

\* Check, line 70, and GetPermissions, line 90
MissingContext(userID, tenantID) == userID = <<>> \/ tenantID = <<>>

\* a *cacheEntry; owner and cno are history: the triple whose Check stored
\* the entry, and the number of the backend call that gave its answer
Entry(allowed, timestamp, owner, cno) ==
    [allowed |-> allowed, timestamp |-> timestamp, owner |-> owner, cno |-> cno]

EmptyCache == [k \in {} |-> Entry(FALSE, ZeroTime, NoTriple, 0)]

\* sync.Map.Store and sync.Map.Delete
MapStore(m, k, e) == [x \in (DOMAIN m) \cup {k} |-> IF x = k THEN e ELSE m[x]]
MapDelete(m, k) == [x \in (DOMAIN m) \ {k} |-> m[x]]

\* the answers of Backend.CheckPermission and of Backend.GetPermissions
BackendAnswers == {"allow", "deny", "error"}
PermissionAnswers == {"list", "error"}

\* a test that never finds an entry fresh
EntryNeverFresh(at, timestamp) == FALSE

\* a test that serves an entry at its TTL
EntryFreshInclusive(at, timestamp) == at - timestamp <= CacheTTL

\* checkCached, line 104: time.Since(entry.timestamp) < a.ttl
EntryFresh(at, timestamp) == at - timestamp < CacheTTL

(***************************************************************************)
(* The record of a goroutine in the Authorizer.  op (the method called),   *)
(* pc, req (the subject, tenant and permission), resource and action (of   *)
(* CheckResource), allowed, cno, todo and visited (the keys Range has      *)
(* still to visit, and has visited) and res are the code's; the rest is    *)
(* history:                                                                *)
(*   age     the age of the entry the Load of line 102 found (NoAge: none) *)
(*   owner   the triple that entry was stored for                          *)
(*   ncall   CheckPermission calls this call made                          *)
(*   nperm   GetPermissions calls to the backend this call made            *)
(*   wrote   this Check added, replaced or removed an entry                *)
(*   seen0   the entries the cache held when ClearCache was called         *)
(***************************************************************************)
NoAge == -1

CheckResult(ok, allowed, err) == [ok |-> ok, allowed |-> allowed, err |-> err]

NoneSeen == [k \in {} |-> 0]

AIdle ==
    [op |-> "none", pc |-> "idle", req |-> NoTriple,
     resource |-> <<>>, action |-> <<>>, allowed |-> FALSE, cno |-> 0,
     todo |-> {}, visited |-> {},
     res |-> CheckResult(FALSE, FALSE, None),
     age |-> NoAge, owner |-> NoTriple, ncall |-> 0, nperm |-> 0,
     wrote |-> FALSE, seen0 |-> NoneSeen]

AInit ==
    /\ cache = EmptyCache
    /\ ap = [p \in Procs |-> AIdle]
    /\ backendCalls = 0

ASet(p, f) == ap' = [ap EXCEPT ![p] = f]

\* the backend is sent at most MaxCalls calls: a Check begins only while
\* every Check that may still call it has a call left
MayCall ==
    backendCalls + Cardinality({q \in Procs : ap[q].pc \in {"delete", "backend"}})
        < MaxCalls

\* a Check that, finding no entry, waits for the goroutine that is already
\* asking the backend for its key
CheckStartCoalesced(tr, c) ==
    LET key == KeyOf(tr)
        b == [c EXCEPT !.req = tr]
    IN  IF MissingContext(tr.user, tr.tenant)
        THEN [b EXCEPT !.pc = "done",
                !.res = CheckResult(FALSE, FALSE, "user_id and tenant_id required")]
        ELSE IF key \in DOMAIN cache
        THEN LET e == cache[key]
                 d == [b EXCEPT !.age = now - e.timestamp, !.owner = e.owner]
             IN  IF EntryFresh(now, e.timestamp)
                 THEN [d EXCEPT !.pc = "done",
                         !.res = CheckResult(TRUE, e.allowed, None)]
                 ELSE [d EXCEPT !.pc = "delete"]
        ELSE IF \E q \in Procs : ap[q].pc \in {"backend", "store"} /\ KeyOf(ap[q].req) = key
        THEN [b EXCEPT !.pc = "wait"]
        ELSE [b EXCEPT !.pc = "backend"]

\* Check, lines 67-74, and checkCached, lines 99-106: the test of the
\* context, the Load of the entry and the test of its age; c is the record
\* of the goroutine as the call begins
CheckStart(tr, c) ==
    LET key == KeyOf(tr)
        b == [c EXCEPT !.req = tr]
    IN  IF MissingContext(tr.user, tr.tenant)
        THEN [b EXCEPT !.pc = "done",
                !.res = CheckResult(FALSE, FALSE, "user_id and tenant_id required")]
        ELSE IF key \in DOMAIN cache
        THEN LET e == cache[key]
                 d == [b EXCEPT !.age = now - e.timestamp, !.owner = e.owner]
             IN  IF EntryFresh(now, e.timestamp)
                 THEN [d EXCEPT !.pc = "done",
                         !.res = CheckResult(TRUE, e.allowed, None)]
                 ELSE [d EXCEPT !.pc = "delete"]
        ELSE [b EXCEPT !.pc = "backend"]

\* Check, lines 66-75
Check(p, tr) ==
    /\ ap[p].pc \in {"idle", "done"}
    /\ MayCall
    /\ ASet(p, CheckStart(tr, [AIdle EXCEPT !.op = "check"]))
    /\ UNCHANGED <<now, kvars, bvars, pvars, tvars, cache, backendCalls>>

\* CheckResource, lines 79-82
CheckResource(p, u, t, resource, action) ==
    /\ ap[p].pc \in {"idle", "done"}
    /\ MayCall
    /\ ASet(p, CheckStart(Triple(u, t, ResourcePermission(resource, action)),
                          [AIdle EXCEPT !.op = "resource", !.resource = resource,
                                        !.action = action]))
    /\ UNCHANGED <<now, kvars, bvars, pvars, tvars, cache, backendCalls>>

\* checkCached, line 108: the expired entry is removed
CheckDelete(p) ==
    /\ ap[p].pc = "delete"
    /\ LET key == KeyOf(ap[p].req)
       IN  /\ cache' = MapDelete(cache, key)
           /\ ASet(p, [ap[p] EXCEPT !.pc = "backend",
                                    !.wrote = key \in DOMAIN cache])
    /\ UNCHANGED <<now, kvars, bvars, pvars, tvars, backendCalls>>

\* checkCached, lines 112-115: the backend call and its failure
CheckPermission(p) ==
    /\ ap[p].pc = "backend"
    /\ backendCalls' = backendCalls + 1
    /\ \E ans \in BackendAnswers :
         IF ans = "error"
         THEN ASet(p, [ap[p] EXCEPT !.pc = "done", !.ncall = @ + 1,
                         !.res = CheckResult(FALSE, FALSE, "backend error")])
         ELSE ASet(p, [ap[p] EXCEPT !.pc = "store", !.ncall = @ + 1,
                         !.cno = backendCalls + 1,
                         !.allowed = (ans = "allow")])
    /\ UNCHANGED <<now, kvars, bvars, pvars, tvars, cache>>

\* a Check that does not store over the answer of a later backend call
CheckStoreKeepsNewer(p) ==
    /\ ap[p].pc = "store"
    /\ LET key == KeyOf(ap[p].req)
       IN  cache' = IF key \in DOMAIN cache /\ cache[key].cno > ap[p].cno
                    THEN cache
                    ELSE MapStore(cache, key,
                                  Entry(ap[p].allowed, now, ap[p].req, ap[p].cno))
    /\ ASet(p, [ap[p] EXCEPT !.pc = "done", !.wrote = TRUE, !.cno = 0,
                             !.res = CheckResult(TRUE, ap[p].allowed, None)])
    /\ UNCHANGED <<now, kvars, bvars, pvars, tvars, backendCalls>>

\* checkCached, lines 118-123: the answer is cached with the time of the Store
CheckStore(p) ==
    /\ ap[p].pc = "store"
    /\ cache' = MapStore(cache, KeyOf(ap[p].req),
                         Entry(ap[p].allowed, now, ap[p].req, ap[p].cno))
    /\ ASet(p, [ap[p] EXCEPT !.pc = "done", !.wrote = TRUE, !.cno = 0,
                             !.res = CheckResult(TRUE, ap[p].allowed, None)])
    /\ UNCHANGED <<now, kvars, bvars, pvars, tvars, backendCalls>>

\* GetPermissions, lines 86-92: the test of the context
GetPermissions(p, u, t) ==
    /\ ap[p].pc \in {"idle", "done"}
    /\ LET c == [AIdle EXCEPT !.op = "perms", !.req = Triple(u, t, <<>>)]
       IN  IF MissingContext(u, t)
           THEN ASet(p, [c EXCEPT !.pc = "done",
                           !.res = CheckResult(FALSE, FALSE, "user_id and tenant_id required")])
           ELSE ASet(p, [c EXCEPT !.pc = "perms"])
    /\ UNCHANGED <<now, kvars, bvars, pvars, tvars, cache, backendCalls>>

\* a GetPermissions that empties the decision cache
GetPermissionsCallClears(p) ==
    /\ ap[p].pc = "perms"
    /\ cache' = EmptyCache
    /\ ASet(p, [ap[p] EXCEPT !.pc = "done", !.nperm = @ + 1,
                             !.res = CheckResult(TRUE, FALSE, None)])
    /\ UNCHANGED <<now, kvars, bvars, pvars, tvars, backendCalls>>

\* GetPermissions, line 94: the backend call, whose result is returned
GetPermissionsCall(p) ==
    /\ ap[p].pc = "perms"
    /\ \E ans \in PermissionAnswers :
         ASet(p, [ap[p] EXCEPT !.pc = "done", !.nperm = @ + 1,
                    !.res = IF ans = "error"
                            THEN CheckResult(FALSE, FALSE, "backend error")
                            ELSE CheckResult(TRUE, FALSE, None)])
    /\ UNCHANGED <<now, kvars, bvars, pvars, tvars, cache, backendCalls>>

\* ClearCache, lines 132-133: Range begins over the keys the map holds
ClearCache(p) ==
    /\ ap[p].pc \in {"idle", "done"}
    /\ ASet(p, [AIdle EXCEPT !.op = "clear", !.pc = "range",
                             !.todo = DOMAIN cache,
                             !.seen0 = [k \in DOMAIN cache |-> cache[k].cno]])
    /\ UNCHANGED <<now, kvars, bvars, pvars, tvars, cache, backendCalls>>

\* a ClearCache that deletes the expired entries only
ClearVisitExpiredOnly(p) ==
    /\ ap[p].pc = "range"
    /\ \E k \in (ap[p].todo \cup DOMAIN cache) \ ap[p].visited :
         /\ cache' = IF k \in DOMAIN cache /\ EntryFresh(now, cache[k].timestamp)
                     THEN cache ELSE MapDelete(cache, k)
         /\ ASet(p, [ap[p] EXCEPT !.todo = @ \ {k}, !.visited = @ \cup {k}])
    /\ UNCHANGED <<now, kvars, bvars, pvars, tvars, backendCalls>>

\* ClearCache, lines 133-135: Range visits a key it has not visited, one
\* the map held when Range began or one stored since, and the key is deleted
ClearVisit(p) ==
    /\ ap[p].pc = "range"
    /\ \E k \in (ap[p].todo \cup DOMAIN cache) \ ap[p].visited :
         /\ cache' = MapDelete(cache, k)
         /\ ASet(p, [ap[p] EXCEPT !.todo = @ \ {k}, !.visited = @ \cup {k}])
    /\ UNCHANGED <<now, kvars, bvars, pvars, tvars, backendCalls>>

\* ClearCache, lines 136-137: Range has visited every key the map held when
\* it began, and ClearCache returns
ClearReturn(p) ==
    /\ ap[p].pc = "range"
    /\ ap[p].todo = {}
    /\ ASet(p, [ap[p] EXCEPT !.pc = "done", !.visited = {},
                             !.res = CheckResult(TRUE, FALSE, None)])
    /\ UNCHANGED <<now, kvars, bvars, pvars, tvars, cache, backendCalls>>

ANext ==
    \/ Tick
    \/ \E p \in Procs : \E tr \in Requests(p) : Check(p, tr)
    \/ \E p \in ResourceCallers : \E c \in ResourceContexts :
         \E resource \in Resources : \E action \in Actions :
           CheckResource(p, c[1], c[2], resource, action)
    \/ \E p \in Procs : CheckDelete(p)
    \/ \E p \in Procs : CheckPermission(p)
    \/ \E p \in Procs : CheckStore(p)
    \/ \E p \in PermissionCallers : \E c \in Contexts : GetPermissions(p, c[1], c[2])
    \/ \E p \in Procs : GetPermissionsCall(p)
    \/ \E p \in ClearCallers : ClearCache(p)
    \/ \E p \in Procs : ClearVisit(p)
    \/ \E p \in Procs : ClearReturn(p)

(***************************************************************************)
(* The payload of a token and the Claims made of it                        *)
(* (src/jwks/jwks.go, Verify lines 67-85 and mapToIAMClaims).              *)
(*                                                                         *)
(* A payload is the jwt.MapClaims the parser decoded: a JSON value is a    *)
(* string, a number (NumericDate values are whole seconds) or an array;    *)
(* a name the payload does not carry has the value Absent.  The tokens of  *)
(* this part are well formed, RS256 and signed by a key the key ring       *)
(* holds, so that Verify depends on the payload alone.                     *)
(***************************************************************************)
JSON(kind, s, n, a) == [kind |-> kind, s |-> s, n |-> n, a |-> a]
Absent == JSON("absent", "", 0, <<>>)
Str(s) == JSON("string", s, 0, <<>>)
Num(n) == JSON("number", "", n, <<>>)
Arr(a) == JSON("array", "", 0, a)

Payloads ==
    [ sub   : {Absent, Str("user-123"), Num(123)},
      email : {Absent, Str("test@example.com")},
      exp   : {Absent, Num(ExpFuture), Num(StartTime), Str("never")},
      nbf   : {Absent, Num(StartTime), Num(ExpFuture)},
      jti   : {Absent, Str("id-1")},
      dept  : {Absent, Str("ops"), Num(3)},
      roles : {Absent, Arr(<<Str("admin"), Str("editor")>>),
               Arr(<<Str("admin"), Num(1)>>)} ]

EmptyPayload ==
    [sub |-> Absent, email |-> Absent, exp |-> Absent, nbf |-> Absent,
     jti |-> Absent, dept |-> Absent, roles |-> Absent]

\* m[k], for the names a payload may not carry
Get(m, k) == IF k \in DOMAIN m THEN m[k] ELSE Absent

\* the names the payload carries
Present(m) == {k \in DOMAIN m : m[k].kind # "absent"}

\* the validator of the parser, with jwt.WithExpirationRequired: exp is
\* required, exp and nbf are numbers, exp is in the future and nbf is not
ValidateClaims(m, at) ==
    LET exp == Get(m, "exp")
        nbf == Get(m, "nbf")
    IN  IF exp.kind = "absent" THEN "exp claim is required"
        ELSE IF exp.kind # "number" THEN "exp is invalid"
        ELSE IF ~(at < exp.n) THEN "token is expired"
        ELSE IF nbf.kind \notin {"absent", "number"} THEN "nbf is invalid"
        ELSE IF nbf.kind = "number" /\ at < nbf.n THEN "token is not valid yet"
        ELSE None

\* m[k].(string), and the zero value when the assertion fails
AsString(v) == IF v.kind = "string" THEN v.s ELSE ""

\* time.Unix(int64(m[k].(float64)), 0), and the zero time.Time
AsTime(v) == IF v.kind = "number" THEN v.n ELSE ZeroTime

\* lines 224-230: the elements of roles that are strings
AsRoles(v) ==
    IF v.kind # "array" THEN <<>>
    ELSE LET strs == SelectSeq(v.a, LAMBDA r : r.kind = "string")
         IN  [i \in 1..Len(strs) |-> strs[i].s]

\* lines 233-237
Standard ==
    {"sub", "tenant_id", "email", "iss", "exp", "iat", "roles", "aud", "nbf", "jti"}

\* mapToIAMClaims, lines 201-245
mapToIAMClaims(m) ==
    [ nil       |-> FALSE,
      Subject   |-> AsString(Get(m, "sub")),
      TenantID  |-> AsString(Get(m, "tenant_id")),
      Email     |-> AsString(Get(m, "email")),
      Issuer    |-> AsString(Get(m, "iss")),
      ExpiresAt |-> AsTime(Get(m, "exp")),
      IssuedAt  |-> AsTime(Get(m, "iat")),
      Roles     |-> AsRoles(Get(m, "roles")),
      Extra     |-> [k \in Present(m) \ Standard |-> m[k]] ]

\* a nil *iam.Claims
NilClaims == [mapToIAMClaims(EmptyPayload) EXCEPT !.nil = TRUE]

\* Verify, lines 76-85, of a token whose signature verifies
VerifyClaims(m, at) ==
    IF ValidateClaims(m, at) # None
    THEN [ok |-> FALSE, err |-> ValidateClaims(m, at), claims |-> NilClaims]
    ELSE [ok |-> TRUE, err |-> None, claims |-> mapToIAMClaims(m)]

PInit ==
    /\ payload = EmptyPayload
    /\ vout = [ok |-> FALSE, err |-> None, claims |-> NilClaims]

\* Verify of a token that carries the payload m
VerifyPayload(m) ==
    /\ payload' = m
    /\ vout' = VerifyClaims(m, now)
    /\ UNCHANGED <<now, kvars, bvars, avars, tvars>>

PNext ==
    \/ Tick
    \/ \E m \in Payloads : VerifyPayload(m)

(***************************************************************************)
(* Tenant service: src/tenant/tenant.go (Service.Resolve).                 *)
(*                                                                         *)
(* TenantTTL is the TTL the Service is configured with (WithTTL), in       *)
(* ticks.  An identifier is a sequence of characters.                      *)
(***************************************************************************)
TenantTTL == 2

Identifiers == {<<"a">>, <<"b">>, <<>>}

\* Resolve, line 62: fmt.Sprintf("resolve:%s", identifier)
ResolveKey(identifier) == <<"resolve:">> \o identifier

\* a nil *iam.Tenant, and the tenant the backend knows under an identifier
NilTenant == [nil |-> TRUE, Slug |-> <<>>]
TenantOf(identifier) == [nil |-> FALSE, Slug |-> identifier]

\* a cacheEntry of Resolve
TEntry(value, expiresAt) == [value |-> value, expiresAt |-> expiresAt]

EmptyTCache == [k \in {} |-> TEntry(NilTenant, ZeroTime)]

\* the answers of Backend.Resolve
ResolveAnswers == {"tenant", "error"}

\* Resolve, line 67: time.Now().Before(entry.expiresAt)
TEntryFresh(at, expiresAt) == at < expiresAt

(***************************************************************************)
(* The record of a goroutine in Resolve.  pc, id, val (what the backend    *)
(* returned) and res are the code's; the rest is history:                  *)
(*   left   the time the entry the Load found had left to live             *)
(*          (NoAge: no entry)                                              *)
(*   neg    that entry held a failure                                      *)
(*   ncall  backend calls this Resolve made                                *)
(***************************************************************************)
ResolveResult(ok, tenant, err) == [ok |-> ok, tenant |-> tenant, err |-> err]

TIdle ==
    [pc |-> "idle", id |-> <<>>, val |-> NilTenant,
     res |-> ResolveResult(FALSE, NilTenant, None),
     left |-> NoAge, neg |-> FALSE, ncall |-> 0]

TInit ==
    /\ tcache = EmptyTCache
    /\ tp = [p \in Procs |-> TIdle]
    /\ resolveCalls = 0

TSet(p, f) == tp' = [tp EXCEPT ![p] = f]

\* the tenant backend is sent at most MaxCalls calls
MayResolve ==
    resolveCalls + Cardinality({q \in Procs : tp[q].pc \in {"delete", "backend"}})
        < MaxCalls

\* Resolve, lines 58-72: the test of the identifier, the Load of the entry
\* and the test of its expiry
Resolve(p, identifier) ==
    /\ tp[p].pc \in {"idle", "done"}
    /\ MayResolve
    /\ LET key == ResolveKey(identifier)
           c == [TIdle EXCEPT !.id = identifier]
       IN  IF identifier = <<>>
           THEN TSet(p, [c EXCEPT !.pc = "done",
                           !.res = ResolveResult(FALSE, NilTenant, "identifier cannot be empty")])
           ELSE IF key \in DOMAIN tcache
           THEN LET e == tcache[key]
                    d == [c EXCEPT !.left = e.expiresAt - now, !.neg = e.value.nil]
                IN  IF TEntryFresh(now, e.expiresAt)
                    THEN IF e.value.nil
                         THEN TSet(p, [d EXCEPT !.pc = "done",
                                         !.res = ResolveResult(FALSE, NilTenant,
                                                               "tenant not found (cached)")])
                         ELSE TSet(p, [d EXCEPT !.pc = "done",
                                         !.res = ResolveResult(TRUE, e.value, None)])
                    ELSE TSet(p, [d EXCEPT !.pc = "delete"])
           ELSE TSet(p, [c EXCEPT !.pc = "backend"])
    /\ UNCHANGED <<now, kvars, bvars, avars, pvars, tcache, resolveCalls>>

\* Resolve, line 74: the expired entry is removed
ResolveDelete(p) ==
    /\ tp[p].pc = "delete"
    /\ tcache' = [x \in (DOMAIN tcache) \ {ResolveKey(tp[p].id)} |-> tcache[x]]
    /\ TSet(p, [tp[p] EXCEPT !.pc = "backend"])
    /\ UNCHANGED <<now, kvars, bvars, avars, pvars, resolveCalls>>

\* Resolve, line 78: the backend call
ResolveBackend(p) ==
    /\ tp[p].pc = "backend"
    /\ resolveCalls' = resolveCalls + 1
    /\ \E ans \in ResolveAnswers :
         TSet(p, [tp[p] EXCEPT !.pc = "store", !.ncall = @ + 1,
                    !.val = IF ans = "error" THEN NilTenant ELSE TenantOf(tp[p].id)])
    /\ UNCHANGED <<now, kvars, bvars, avars, pvars, tcache>>

\* a Resolve that caches the tenants it found and no failure
ResolveStoreSkipsFailure(p) ==
    /\ tp[p].pc = "store"
    /\ tcache' = IF tp[p].val.nil THEN tcache
                 ELSE [x \in (DOMAIN tcache) \cup {ResolveKey(tp[p].id)} |->
                         IF x = ResolveKey(tp[p].id)
                         THEN TEntry(tp[p].val, now + TenantTTL)
                         ELSE tcache[x]]
    /\ TSet(p, [tp[p] EXCEPT !.pc = "done", !.val = NilTenant,
                  !.res = IF tp[p].val.nil
                          THEN ResolveResult(FALSE, NilTenant, "backend error")
                          ELSE ResolveResult(TRUE, tp[p].val, None)])
    /\ UNCHANGED <<now, kvars, bvars, avars, pvars, resolveCalls>>

\* Resolve, lines 79-94: the failure, or the tenant, is cached until the
\* time of the Store plus the TTL, and returned
ResolveStore(p) ==
    /\ tp[p].pc = "store"
    /\ tcache' = [x \in (DOMAIN tcache) \cup {ResolveKey(tp[p].id)} |->
                    IF x = ResolveKey(tp[p].id)
                    THEN TEntry(tp[p].val, now + TenantTTL)
                    ELSE tcache[x]]
    /\ TSet(p, [tp[p] EXCEPT !.pc = "done", !.val = NilTenant,
                  !.res = IF tp[p].val.nil
                          THEN ResolveResult(FALSE, NilTenant, "backend error")
                          ELSE ResolveResult(TRUE, tp[p].val, None)])
    /\ UNCHANGED <<now, kvars, bvars, avars, pvars, resolveCalls>>

TNext ==
    \/ Tick
    \/ \E p \in Procs : \E identifier \in Identifiers : Resolve(p, identifier)
    \/ \E p \in Procs : ResolveDelete(p)
    \/ \E p \in Procs : ResolveBackend(p)
    \/ \E p \in Procs : ResolveStore(p)

(***************************************************************************)
(* Specifications: the components share no state but the clock, and each   *)
(* is checked on its own.                                                  *)
(***************************************************************************)
Init == now = StartTime /\ KInit /\ BInit /\ AInit /\ PInit /\ TInit
Next == KNext \/ BNext \/ ANext \/ PNext \/ TNext
Spec == Init /\ [][Next]_vars
SpecKeyRing == Init /\ [][KNext]_vars
SpecBroker == Init /\ [][BNext]_vars

\* the broker with its scheduling: a goroutine inside a call takes its next
\* step (the request is sent, the http client returns the issuer's answer
\* or the cancellation, the group delivers, the token is stored)
BrokerFairness ==
    \A p \in Procs :
        /\ WF_vars(SfDo(p))
        /\ WF_vars(Send(p))
        /\ WF_vars(Receive(p))
        /\ WF_vars(SfDone(p))
        /\ WF_vars(Store(p))

SpecBrokerLive == Init /\ [][BNext]_vars /\ BrokerFairness
SpecAuthz == Init /\ [][ANext]_vars
SpecClaims == Init /\ [][PNext]_vars

\* the three components side by side: the key ring, the broker and the
\* decision cache share no state but the clock, and a behaviour exercises
\* one of them while the other two stay as constructed
CNext ==
    \/ BInit /\ AInit /\ KNext
    \/ KInit /\ AInit /\ BNext
    \/ KInit /\ BInit /\ ANext

SpecComponents == Init /\ [][CNext]_vars
SpecTenant == Init /\ [][TNext]_vars

(***************************************************************************)
(* Properties of the TokenBroker, checked under SpecBroker.                *)
(***************************************************************************)

\* C1: when the GetCachedToken calls of all goroutines run concurrently,
\* each found no valid cached token and no context is cancelled, exactly one
\* request reaches the issuer.
C1_ExactlyOneExchange ==
    (/\ conc = Procs
     /\ \A p \in Procs : /\ bp[p].op = "get" /\ bp[p].pc = "done"
                         /\ bp[p].slow /\ ~bp[p].cancelled)
    => Cardinality({p \in Procs : bp[p].sent}) = 1

\* C2: a goroutine that shared the exchange of another goroutine whose
\* context was cancelled after the request was sent, its own context not
\* being cancelled, does not get a cancellation failure.
C2_CancelNotShared ==
    \A q \in Procs :
        (/\ bp[q].pc = "done"
         /\ bp[q].joined
         /\ bp[q].lcan
         /\ ~bp[q].cancelled)
        => bp[q].ret.err # "context canceled"

\* C15: the cached token changes only in the Store of a GetCachedToken
\* whose exchange succeeded, and it becomes the token of that exchange: a
\* GetCachedToken whose exchange failed leaves the cached token as it was.
C15_Step ==
    token' # token
    => \E q \in Procs : /\ bp[q].op = "get"
                        /\ bp[q].pc = "store" /\ bp'[q].pc = "done"
                        /\ bp[q].exr.err = None /\ bp'[q].ret.err = None
                        /\ token' = bp[q].exr.tok

C15_FailedExchangeKeepsToken == [][C15_Step]_vars

\* a GetCachedToken whose request reached the issuer has returned an error
\* while a token is cached
C15_Witness ==
    \E p \in Procs : /\ bp[p].op = "get" /\ bp[p].pc = "done"
                     /\ bp[p].sent /\ bp[p].ret.err # None
                     /\ token # NoToken

\* C16 as stated: at most one exchange request is in flight, whichever
\* operations are called.
C16_Original == Cardinality({p \in Procs : bp[p].pc = "inflight"}) <= 1

\* C16: at most one exchange request made by GetCachedToken is in flight;
\* the requests of direct ExchangeToken calls are not counted.
C16_OneCoalescedInFlight ==
    Cardinality({p \in Procs : bp[p].op = "get" /\ bp[p].pc = "inflight"}) <= 1

\* the request of one GetCachedToken is in flight and another GetCachedToken
\* waits for its result
C16_Witness ==
    \E p, q \in Procs : /\ bp[p].op = "get" /\ bp[p].pc = "inflight"
                        /\ bp[q].op = "get" /\ bp[q].pc = "joined"

\* p begins a GetCachedToken in this step
GetBegins(p) ==
    /\ bp[p].pc \in {"idle", "done"}
    /\ bp'[p] # bp[p]
    /\ bp'[p].op = "get"

\* C17: GetCachedToken returns the cached access token at once, with no
\* request, exactly when a token is cached and now is before its expiresAt
\* minus the refresh buffer; a token it returns otherwise comes from an
\* exchange.
C17_Step ==
    \A p \in Procs :
        GetBegins(p)
        => ((/\ bp'[p].pc = "done"
             /\ bp'[p].ret = [err |-> None, at |-> token.at]
             /\ reqs' = reqs /\ token' = token)
            <=> (token # NoToken /\ now < token.exp - RefreshBuffer))

C17_State ==
    \A p \in Procs :
        (bp[p].op = "get" /\ bp[p].pc = "done" /\ bp[p].ret.err = None /\ bp[p].slow)
        => (bp[p].sent \/ bp[p].joined)

C17_FastPathIffValid == [](C17_State) /\ [][C17_Step]_vars

\* after the one exchange that cached the token, a later call inside the
\* window was answered from the cache
C17_Witness ==
    /\ reqs = 1
    /\ now > StartTime
    /\ \E p \in Procs : /\ bp[p].op = "get" /\ bp[p].pc = "done" /\ ~bp[p].slow
                        /\ bp[p].ret = [err |-> None, at |-> token.at]
    /\ \E p \in Procs : /\ bp[p].op = "get" /\ bp[p].pc = "done" /\ bp[p].sent

\* C18: a GetCachedToken that begins with a cached token whose lifetime is
\* less than the refresh buffer, joins no other call and is not cancelled,
\* takes the slow path and sends one request to the issuer.
C18_ShortTokenAlwaysExchanges ==
    \A p \in Procs :
        (/\ bp[p].op = "get" /\ bp[p].pc = "done"
         /\ bp[p].short /\ ~bp[p].joined /\ ~bp[p].cancelled)
        => (bp[p].slow /\ bp[p].sent)

\* the second of two calls found the short-lived token of the first cached
\* and made the second request
C18_Witness ==
    /\ reqs = 2
    /\ \E p \in Procs : /\ bp[p].op = "get" /\ bp[p].pc = "done"
                        /\ bp[p].short /\ bp[p].sent
                        /\ bp[p].ret = [err |-> None, at |-> 2]

\* C26: an answer of the issuer with a status other than 200, or with an
\* empty access_token, makes ExchangeToken return an error and no token, and
\* no step of an ExchangeToken call changes the cached token.
C26_State ==
    /\ \A n \in 1..MaxReqs : \A resp \in IssuerResponses(n) :
         (~resp.transport /\ (resp.status # 200 \/ (resp.json /\ resp.at = 0)))
         => /\ ExchangeOutcome(resp, now).err # None
            /\ ExchangeOutcome(resp, now).tok = NoToken
    /\ \A p \in Procs :
         (bp[p].op = "exchange" /\ bp[p].pc = "returned")
         => (bp[p].exr.err # None => bp[p].exr.tok = NoToken)
    /\ \A p \in Procs :
         (bp[p].op = "exchange" /\ bp[p].pc = "done" /\ bp[p].ret.err # None)
         => bp[p].ret.at = 0

C26_Step ==
    \A p \in Procs :
        (bp'[p] # bp[p] /\ bp'[p].op = "exchange") => token' = token

C26_HardFailure == [](C26_State) /\ [][C26_Step]_vars

\* while a token is cached, an ExchangeToken whose request the issuer
\* answered with a status other than 200 has returned the error and no token
C26_Witness ==
    /\ token # NoToken
    /\ \E p \in Procs :
         /\ bp[p].op = "exchange" /\ bp[p].pc = "done" /\ bp[p].sent
         /\ bp[p].ret = [err |-> "token endpoint returned", at |-> 0]

\* C32: a GetCachedToken that joined an exchange in flight returns; when
\* the exchange ends the group gives it the result the goroutine that runs
\* the exchange got, and each of them returns the access token, or the
\* error, of that result.
C32_Step ==
    \A p \in Procs :
        /\ (bp[p].op = "get" /\ bp[p].pc = "returned" /\ bp'[p].pc = "store")
           => \A q \in Procs :
                  bp[q].pc = "joined"
                  => /\ bp'[q].pc = "store"
                     /\ bp'[q].exr = bp[p].exr
                     /\ bp'[p].exr = bp[p].exr
        /\ (bp[p].pc = "store" /\ bp'[p].pc = "done")
           => bp'[p].ret = [err |-> bp[p].exr.err,
                            at |-> IF bp[p].exr.err = None THEN bp[p].exr.tok.at ELSE 0]

C32_JoinersReturn ==
    /\ [][C32_Step]_vars
    /\ \A q \in Procs : (bp[q].pc = "joined") ~> (bp[q].pc = "done")

\* a goroutine that joined has returned the access token of the one request
\* sent, as the goroutine that sent it has
C32_Witness ==
    \E p \in Procs : \E q \in Procs \ {p} :
        /\ bp[p].op = "get" /\ bp[p].pc = "done" /\ bp[p].sent /\ ~bp[p].joined
        /\ bp[q].op = "get" /\ bp[q].pc = "done" /\ bp[q].joined
        /\ bp[q].ret = bp[p].ret
        /\ bp[q].ret = [err |-> None, at |-> 1]
        /\ reqs = 1

\* C33: a cached token is never cleared, and the cached token changes only
\* in the Store of a GetCachedToken whose exchange succeeded; no step of an
\* ExchangeToken called directly changes it.
C33_Step ==
    /\ token # NoToken => token' # NoToken
    /\ token' # token
       => \E q \in Procs : /\ bp[q].op = "get"
                           /\ bp[q].pc = "store" /\ bp[q].exr.err = None
                           /\ bp'[q].pc = "done"
                           /\ token' = bp[q].exr.tok
                           /\ token' # NoToken
    /\ \A p \in Procs :
         (bp'[p] # bp[p] /\ (bp[p].op = "exchange" \/ bp'[p].op = "exchange"))
         => token' = token

C33_TokenOnlyReplaced == [][C33_Step]_vars

\* an ExchangeToken called directly was granted the token of the second
\* request, and the cached token is still the token of the first
C33_Witness ==
    /\ token # NoToken /\ token.at = 1
    /\ \E p \in Procs :
         /\ bp[p].op = "exchange" /\ bp[p].pc = "done"
         /\ bp[p].ret = [err |-> None, at |-> 2]

\* C37: the Store of a GetCachedToken whose exchange succeeded caches the
\* token of that exchange, whatever token is cached: also over a token that
\* was issued later.
C37_Step ==
    \A p \in Procs :
        (bp[p].op = "get" /\ bp[p].pc = "store" /\ bp[p].exr.err = None
         /\ bp'[p].pc = "done")
        => /\ token' = bp[p].exr.tok
           /\ bp'[p].prev = token

C37_StoreOverwrites == [][C37_Step]_vars

\* a GetCachedToken has replaced the cached token of the second request
\* with the token of the first, which expires earlier
C37_Witness ==
    \E p \in Procs :
        /\ bp[p].op = "get" /\ bp[p].pc = "done" /\ bp[p].ret.err = None
        /\ token.at = bp[p].ret.at
        /\ bp[p].prev # NoToken
        /\ bp[p].prev.at > token.at
        /\ bp[p].prev.exp > token.exp

\* C38: a GetCachedToken whose exchange failed returns the error and no
\* access token, also while the cached token has not reached its ExpiresAt.
C38_Step ==
    \A p \in Procs :
        (bp[p].op = "get" /\ bp[p].pc = "store" /\ bp[p].exr.err # None
         /\ bp'[p].pc = "done")
        => /\ bp'[p].ret.err = bp[p].exr.err
           /\ bp'[p].ret.at = 0

C38_State ==
    \A p \in Procs :
        (bp[p].op = "get" /\ bp[p].pc = "done" /\ bp[p].slow /\ bp[p].ret.err = None)
        => bp[p].ret.at # 0

C38_NoStaleFallback == [](C38_State) /\ [][C38_Step]_vars

\* the request of a GetCachedToken was answered with an error while the
\* cached token was inside the refresh buffer and before its ExpiresAt
C38_Witness ==
    \E p \in Procs :
        /\ bp[p].op = "get" /\ bp[p].pc = "done" /\ bp[p].slow /\ bp[p].sent
        /\ bp[p].ret.err # None /\ bp[p].ret.at = 0
        /\ token # NoToken
        /\ now < token.exp
        /\ ~TokenValid(token, now)
        /\ token.ein > RefreshBuffer

(***************************************************************************)
(* Properties of the KeyRing and the TokenVerifier, checked under          *)
(* SpecKeyRing.                                                            *)
(***************************************************************************)
KDone(p) == kp[p].pc = "done"
KTok(p) == Tokens[kp[p].tok]
RSAAlgs == {"RS256", "RS384", "RS512"}

\* C3: Verify returns Claims only when the algorithm check, the key
\* resolution, the signature check and the expiry check all succeeded, and
\* otherwise an error and no Claims.
C3_AllOrNothing ==
    \A p \in Procs :
        KDone(p) =>
            LET r == kp[p].res
                t == KTok(p)
            IN  /\ r.ok => /\ t.wf /\ t.alg \in RSAAlgs
                           /\ kp[p].resolved /\ kp[p].gk # NoKey
                           /\ kp[p].gk = t.key
                           /\ kp[p].live
                           /\ r.claims = ClaimsOf(t)
                /\ r.ok <=> r.err = None
                /\ r.ok <=> ~r.claims.nil

C3_Witness ==
    \E p \in Procs :
        KDone(p) /\ kp[p].res.ok /\ kp[p].nfetch = 1 /\ ~kp[p].res.claims.nil

\* C4: a token whose algorithm is not RSA is rejected whatever the key ring
\* holds and whatever its kid, before getKey is entered or anything fetched.
C4_NonRSARejected ==
    \A p \in Procs :
        (KDone(p) /\ KTok(p).wf /\ KTok(p).alg \notin RSAAlgs)
        => /\ ~kp[p].res.ok
           /\ kp[p].res.claims.nil
           /\ ~kp[p].resolved
           /\ kp[p].nfetch = 0

C4_Witness ==
    \E p \in Procs :
        /\ KDone(p) /\ KTok(p).alg = "HS256" /\ ~kp[p].res.ok
        /\ KTok(p).kid \in DOMAIN keys
        /\ keys[KTok(p).kid] = KTok(p).key
        /\ now - lastFetch < RefreshInterval

RefreshErrors == {"fetch", "status", "decode", "no valid RSA signing keys"}

\* C5: when the refresh of a Resolve fails, Resolve returns the key its
\* lookup found, stale or not, if it found one, and an error only if it
\* found none.
C5_StaleFallback ==
    \A p \in Procs :
        kp[p].failed =>
            IF kp[p].found
            THEN /\ kp[p].pc \in {"verify", "done"}
                 /\ kp[p].key # NoKey
                 /\ kp[p].gk = kp[p].key
                 /\ kp[p].res.err \notin RefreshErrors
            ELSE /\ KDone(p)
                 /\ kp[p].gk = NoKey
                 /\ kp[p].res.err \in RefreshErrors

C5_Witness ==
    \E p \in Procs :
        KDone(p) /\ kp[p].failed /\ kp[p].found /\ kp[p].stale /\ kp[p].res.ok

\* the case of C6: a well-formed, unexpired RSA token whose kid the first
\* lookup did not find, and whose key the fetched document holds
C6_Case(p) ==
    /\ KDone(p)
    /\ KTok(p).wf /\ KTok(p).alg \in RSAAlgs /\ KTok(p).exp > EndTime
    /\ ~kp[p].found
    /\ kp[p].hasKid

\* C6 as stated: the first Verify of a token signed with a key absent from
\* the snapshot and present in the remote key set makes one fetch and
\* succeeds.
C6_Original ==
    \A p \in Procs : C6_Case(p) => kp[p].res.ok /\ kp[p].nfetch = 1

\* C6 as amended: ... provided no other refresh replaces the snapshot
\* between the refresh of this Verify and its second lookup.
C6_OneFetchThenSuccess ==
    \A p \in Procs :
        (C6_Case(p) /\ ~kp[p].clobbered) => kp[p].res.ok /\ kp[p].nfetch = 1

C6_Witness ==
    \E p \in Procs :
        /\ C6_Case(p) /\ ~kp[p].clobbered /\ ~kp[p].stale
        /\ kp[p].res.ok /\ kp[p].nfetch = 1

\* C7: a Resolve that finds the kid in a snapshot younger than the refresh
\* interval returns that key and fetches nothing.
C7_CacheHit ==
    \A p \in Procs :
        (kp[p].pc \in {"fetch", "install", "installTime", "reread", "verify", "done"}
         /\ kp[p].found /\ kp[p].young)
        => /\ kp[p].pc \in {"verify", "done"}
           /\ kp[p].gk = kp[p].key
           /\ kp[p].nfetch = 0

C7_Witness ==
    \E p \in Procs :
        KDone(p) /\ kp[p].found /\ kp[p].young /\ kp[p].nfetch = 0 /\ kp[p].res.ok

\* C8: a Resolve of a cached kid fetches once when the age of the snapshot
\* is the refresh interval or more, and not at all when it is less.
C8_FreshOnlyBelowInterval ==
    \A p \in Procs :
        (KDone(p) /\ kp[p].found)
        => kp[p].nfetch = IF kp[p].young THEN 0 ELSE 1

\* C9: a refresh that fails never writes the snapshot, no empty key map is
\* ever installed, and every change of the snapshot is the write of a
\* refresh that succeeded.
C9_State ==
    /\ \A p \in Procs :
          /\ kp[p].failed => kp[p].pc \in {"verify", "done"}
          /\ kp[p].pc = "install" => DOMAIN kp[p].newKeys # {}
    /\ lastFetch # ZeroTime => DOMAIN keys # {}
    /\ mu.writer = 0 => (lastFetch = ZeroTime <=> DOMAIN keys = {})

C9_Step ==
    (keys' # keys \/ lastFetch' # lastFetch)
    => \E p \in Procs :
          /\ ~kp[p].failed /\ ~kp'[p].failed
          /\ \/ kp[p].pc = "install" /\ kp'[p].pc = "installTime"
             \/ kp[p].pc = "installTime" /\ kp'[p].pc = "reread"

C9_FailedRefreshKeepsSnapshot == [](C9_State) /\ [][C9_Step]_vars

C9_Witness ==
    \E p \in Procs :
        /\ KDone(p) /\ kp[p].failed
        /\ kp[p].res.err = "no valid RSA signing keys"
        /\ DOMAIN keys # {} /\ keys = installed.keys /\ lastFetch = installed.at

\* C10: whenever a reader holds the lock or may take it, the snapshot is the
\* usable key set of one fetched document with the fetch time written with
\* it, and what the reader read is that snapshot's.
C10_SnapshotAtomic ==
    /\ installed.keys \in {EmptyKeys} \cup {BuildKeys(Docs[d]) : d \in DocIds}
    /\ (installed.keys = EmptyKeys) <=> (installed.at = ZeroTime)
    /\ (mu.writer = 0 \/ mu.readers # {})
         => keys = installed.keys /\ lastFetch = installed.at
    /\ \A p \in Procs :
          kp[p].pc = "getKeyStale" =>
              /\ p \in mu.readers
              /\ kp[p].found <=> KTok(p).kid \in DOMAIN installed.keys
              /\ kp[p].found => kp[p].key = installed.keys[KTok(p).kid]

C10_Witness ==
    \E p, q \in Procs :
        /\ kp[p].pc = "getKeyStale"
        /\ kp[q].pc = "install"
        /\ kp[q].newKeys # keys
        /\ DOMAIN keys # {}

\* C21: a Verify whose key resolution returned the key that signed the
\* token, so that the signature verifies, fails when the token carries no
\* expiry or its expiry is not in the future, also when the key was cached.
C21_ExpiryRequired ==
    \A p \in Procs :
        (/\ KDone(p) /\ kp[p].resolved
         /\ kp[p].gk # NoKey /\ kp[p].gk = KTok(p).key
         /\ (KTok(p).exp = NoExp \/ ~kp[p].live))
        => /\ ~kp[p].res.ok
           /\ kp[p].res.claims.nil
           /\ kp[p].res.err = IF KTok(p).exp = NoExp THEN "exp claim is required"
                              ELSE "token is expired"

\* a token whose expiry has passed, signed by a key that was cached and
\* fresh, has been rejected with no fetch
C21_Witness ==
    \E p \in Procs :
        /\ KDone(p) /\ kp[p].found /\ kp[p].nfetch = 0
        /\ kp[p].gk = KTok(p).key
        /\ KTok(p).exp # NoExp /\ KTok(p).exp <= now
        /\ kp[p].res.err = "token is expired"

\* C27: the key map changes only when a refresh takes the lock, and it
\* becomes the key map of the document that refresh fetched, whatever the
\* map held and whichever refresh fetched first; the fetch time is written
\* in the same critical section.
C27_Step ==
    /\ \A p \in Procs :
         (kp[p].pc = "install" /\ kp'[p].pc = "installTime")
         => keys' = BuildKeys(Docs[kp[p].fdoc])
    /\ \A p \in Procs :
         (kp[p].pc = "installTime" /\ kp'[p].pc = "reread")
         => (lastFetch' = now /\ installed' = [keys |-> keys, at |-> now])
    /\ keys' # keys
       => \E p \in Procs : kp[p].pc = "install" /\ kp'[p].pc = "installTime"

C27_LastWriterWins == [][C27_Step]_vars

\* two refreshes overlapped: q fetched the later document (it holds k2) and
\* installed it, then p installed the earlier document it had fetched before
C27_Witness ==
    \E p, q \in Procs :
        /\ p # q
        /\ kp[p].pc = "reread" /\ kp[q].pc = "reread"
        /\ KTok(q).kid = "k2" /\ kp[q].hasKid /\ kp[q].clobbered
        /\ keys = BuildKeys(Docs[1])
        /\ installed.keys = keys

\* C28 as stated, for every key-id: one fetch, and an error when the fetch
\* fails or the key-id is still absent after it.
C28_Original ==
    \A p \in Procs :
        (KDone(p) /\ kp[p].resolved /\ ~kp[p].found)
        => /\ kp[p].nfetch = 1
           /\ kp[p].failed => (~kp[p].res.ok /\ kp[p].gk = NoKey)
           /\ (~kp[p].failed /\ kp[p].absent2)
              => (~kp[p].res.ok /\ kp[p].res.err = "key not found")

\* C28: a Verify whose first lookup did not find the key-id sends exactly
\* one fetch, fresh snapshot or not; it fails when that fetch fails, and,
\* for a key-id that is not empty, when the key-id is still absent after it.
C28_OneFetchAttempt ==
    \A p \in Procs :
        (KDone(p) /\ kp[p].resolved /\ ~kp[p].found)
        => /\ kp[p].nfetch = 1
           /\ kp[p].failed => (~kp[p].res.ok /\ kp[p].gk = NoKey)
           /\ (~kp[p].failed /\ kp[p].absent2 /\ KTok(p).kid # "")
              => (~kp[p].res.ok /\ kp[p].res.err = "key not found")

\* with a fresh snapshot, a key-id that the refreshed snapshot does not hold
\* has cost one fetch and ended in "key not found"
C28_Witness ==
    \E p \in Procs :
        /\ KDone(p) /\ kp[p].resolved /\ ~kp[p].found /\ kp[p].young
        /\ KTok(p).kid # "" /\ kp[p].absent2 /\ ~kp[p].failed
        /\ kp[p].nfetch = 1
        /\ kp[p].res.err = "key not found"

\* the keys a map holds
KeysOf(ks) == {ks[k] : k \in DOMAIN ks}

\* C31: with an empty key-id, the lookup after a successful refresh does not
\* fail: it returns a key of the map the refresh left in place, and the
\* only key when that map holds one key.
C31_State ==
    \A p \in Procs :
        (/\ kp[p].pc \in {"verify", "done"} /\ kp[p].resolved
         /\ KTok(p).kid = "" /\ kp[p].nfetch = 1 /\ ~kp[p].failed)
        => /\ kp[p].gk # NoKey
           /\ kp[p].res.err # "key not found"
           /\ kp[p].snap # {}

C31_Step ==
    \A p \in Procs :
        (kp[p].pc = "reread" /\ kp'[p].pc # "reread" /\ KTok(p).kid = "")
        => /\ kp'[p].pc = "verify"
           /\ kp'[p].gk \in KeysOf(keys)
           /\ keys = installed.keys
           /\ \A k \in DOMAIN keys : DOMAIN keys = {k} => kp'[p].gk = keys[k]

C31_EmptyKidGetsSnapshotKey == [](C31_State) /\ [][C31_Step]_vars

\* a token without a key-id was verified with the only key of the map the
\* refresh of its call installed
C31_Witness ==
    \E p \in Procs :
        /\ KDone(p) /\ KTok(p).kid = "" /\ kp[p].nfetch = 1 /\ ~kp[p].failed
        /\ kp[p].snap = {"k1"}
        /\ kp[p].gk = K1
        /\ kp[p].res.ok

\* C34: no map holds a key of empty id, so a Verify of a token without a
\* key-id is never a cache hit: it sends one fetch, fresh snapshot or not,
\* and when the fetch fails it returns the error of the fetch, whatever keys
\* the map holds.
C34_EmptyKidAlwaysFetches ==
    /\ "" \notin DOMAIN keys
    /\ \A p \in Procs :
         (kp[p].resolved /\ KTok(p).kid = "")
         => /\ ~kp[p].found
            /\ kp[p].pc \in {"verify", "done"} => kp[p].nfetch = 1
            /\ (KDone(p) /\ kp[p].failed)
               => /\ ~kp[p].res.ok
                  /\ kp[p].res.err \in RefreshErrors
                  /\ kp[p].gk = NoKey

\* the fetch of a token without a key-id failed one tick after the refresh
\* that installed the keys the map holds, and the Verify returned an error
C34_Witness ==
    \E p \in Procs :
        /\ KDone(p) /\ KTok(p).kid = "" /\ kp[p].resolved
        /\ ~kp[p].stale /\ kp[p].failed /\ kp[p].nfetch = 1
        /\ keys # EmptyKeys
        /\ ~kp[p].res.ok

\* C40: with an empty key-id the second lookup may return any key of the
\* map: from a state in which a goroutine is about to make it, each key of
\* the map is the key of one of its outcomes.
C40_AnyKeyOfSnapshot ==
    \A p \in Procs :
        (kp[p].pc = "reread" /\ CanRLock /\ KTok(p).kid = "")
        => \A k \in DOMAIN keys :
               ENABLED (Reread(p) /\ kp'[p].gk = keys[k])

\* two Verify calls of the token without a key-id read the same map of two
\* keys and were given different keys
C40_Witness ==
    /\ \A p \in Procs : /\ kp[p].pc \in {"verify", "done"} /\ kp[p].tok = 4
                        /\ kp[p].nfetch = 1 /\ ~kp[p].failed
    /\ kp[1].snap = kp[2].snap
    /\ kp[1].snap = DOMAIN keys
    /\ Cardinality(DOMAIN keys) = 2
    /\ kp[1].gk # kp[2].gk
    /\ {kp[1].gk, kp[2].gk} = KeysOf(keys)

\* the entries of a document that are RSA, of use "" or "sig", and whose
\* n and e decode
KeptKids(doc) ==
    {doc[i].kid : i \in {j \in 1..Len(doc) :
                           /\ doc[j].kty = "RSA"
                           /\ doc[j].use \in {"", "sig"}
                           /\ B64Ok(doc[j].n) /\ B64Ok(doc[j].e)}}

\* C30: the key-ids a refresh installs are those of the usable entries of
\* the document it fetched, and a document with a usable entry does not make
\* the refresh fail.
C30_State ==
    /\ \A p \in Procs :
         kp[p].pc = "install"
         => (DOMAIN kp[p].newKeys = KeptKids(Docs[kp[p].fdoc])
             /\ KeptKids(Docs[kp[p].fdoc]) # {})
    /\ \A d \in 1..remote :
         KeptKids(Docs[d]) # {}
         => RefreshOutcome(Resp(FALSE, 200, TRUE, d)).err = None

C30_Step ==
    \A p \in Procs :
        (kp[p].pc = "install" /\ kp'[p].pc = "installTime")
        => DOMAIN keys' = KeptKids(Docs[kp[p].fdoc])

C30_KeepsUsableEntries == [](C30_State) /\ [][C30_Step]_vars

\* the snapshot of a document that holds usable entries next to an
\* elliptic-curve entry and an undecodable one
C30_Witness ==
    /\ installed.keys = BuildKeys(Docs[2])
    /\ DOMAIN keys = {"k1", "k2"}
    /\ Len(Docs[2]) > Cardinality(DOMAIN keys)
    /\ lastFetch >= StartTime

(***************************************************************************)
(* Properties of the DecisionCache, checked under SpecAuthz.               *)
(***************************************************************************)
\* the Check, or CheckResource, of p has returned
ADone(p) == ap[p].pc = "done" /\ ap[p].op \in {"check", "resource"}

\* the Load of the Check of p found an entry younger than the TTL
InWindow(p) == ap[p].age # NoAge /\ ap[p].age < CacheTTL

\* C11: a Check that finds an entry of its triple inside the TTL window
\* answers with no backend call; a Check that finds none, or one whose TTL
\* has elapsed, and succeeds has made exactly one backend call, and it
\* leaves the answer cached with the time of its Store, which opens the
\* next window.  So two sequential Checks within the window make one backend
\* call in total and the next Check after the TTL makes one more.
C11_State ==
    \A p \in Procs :
        (ADone(p) /\ ap[p].res.ok)
        => ap[p].ncall = IF InWindow(p) THEN 0 ELSE 1

C11_Step ==
    \A p \in Procs :
        (ap[p].pc = "store" /\ ap'[p].pc = "done")
        => /\ KeyOf(ap[p].req) \in DOMAIN cache'
           /\ cache'[KeyOf(ap[p].req)].timestamp = now
           /\ cache'[KeyOf(ap[p].req)].allowed = ap'[p].res.allowed
           /\ backendCalls' = backendCalls

C11_OneCallPerWindow == [](C11_State) /\ [][C11_Step]_vars

\* goroutine 1 was answered from the cache one tick after the entry was
\* stored, and goroutine 2, for the same triple, called the backend after
\* the TTL had elapsed: two backend calls in all
C11_Witness ==
    /\ ADone(1) /\ ap[1].res.ok /\ ap[1].age = 1 /\ ap[1].ncall = 0
    /\ ADone(2) /\ ap[2].res.ok /\ ap[2].age = CacheTTL /\ ap[2].ncall = 1
    /\ ap[1].req = ap[2].req
    /\ backendCalls = 2

\* C12: a Check that answers without a backend call serves an entry whose
\* age is strictly less than the TTL.
C12_NeverServedPastTTL ==
    \A p \in Procs :
        (ADone(p) /\ ap[p].res.ok /\ ap[p].ncall = 0)
        => /\ ap[p].age # NoAge
           /\ ap[p].age < CacheTTL

\* an entry is served one tick before its TTL, and a Check that found an
\* entry at its TTL went to the backend
C12_Witness ==
    /\ \E p \in Procs : /\ ADone(p) /\ ap[p].res.ok /\ ap[p].ncall = 0
                        /\ ap[p].age = CacheTTL - 1
    /\ \E p \in Procs : ADone(p) /\ ap[p].age = CacheTTL /\ ap[p].ncall = 1

\* C13: a Check whose backend call failed has not added, changed or removed
\* an entry of the cache.
C13_FailedCheckLeavesCache ==
    \A p \in Procs :
        (ADone(p) /\ ~ap[p].res.ok /\ ap[p].ncall = 1) => ~ap[p].wrote

\* C14: a Check that answers from the cache serves an entry that was stored
\* for its own (subject, tenant, permission) triple.
C14_KeyedByTriple ==
    \A p \in Procs :
        (ADone(p) /\ ap[p].res.ok /\ ap[p].ncall = 0)
        => ap[p].owner = ap[p].req

\* C22: CheckResource(resource, action) is Check with the permission
\* resource ":" action: it begins as that Check begins, on the same cache
\* key, so an entry one of them stored answers the other inside the TTL.
C22_State ==
    \A p \in Procs :
        (ap[p].pc = "done" /\ ap[p].op = "resource")
        => /\ ap[p].req.perm = ap[p].resource \o Colon \o ap[p].action
           /\ ap[p].res.ok => ap[p].ncall = IF InWindow(p) THEN 0 ELSE 1

C22_Step ==
    \A p \in Procs :
        (ap[p].pc \in {"idle", "done"} /\ ap'[p] # ap[p] /\ ap'[p].op = "resource")
        => /\ [ap'[p] EXCEPT !.op = "check", !.resource = <<>>, !.action = <<>>]
                = CheckStart(Triple(ap'[p].req.user, ap'[p].req.tenant,
                                    ap'[p].resource \o Colon \o ap'[p].action),
                             [AIdle EXCEPT !.op = "check"])
           /\ cache' = cache
           /\ backendCalls' = backendCalls

C22_ResourceIsCheck == [](C22_State) /\ [][C22_Step]_vars

\* CheckResource called the backend and stored the answer, and a Check of
\* the permission resource ":" action was answered from that entry: one
\* backend call in all
C22_Witness ==
    /\ ap[1].pc = "done" /\ ap[1].op = "resource" /\ ap[1].res.ok /\ ap[1].ncall = 1
    /\ ap[2].pc = "done" /\ ap[2].op = "check" /\ ap[2].res.ok /\ ap[2].ncall = 0
    /\ ap[2].req = Triple(ap[1].req.user, ap[1].req.tenant,
                          ap[1].resource \o Colon \o ap[1].action)
    /\ ap[2].owner = ap[1].req
    /\ InWindow(2)
    /\ backendCalls = 1

\* C23: GetPermissions leaves the decision cache as it is and makes no
\* CheckPermission call; with a subject and a tenant it makes exactly one
\* GetPermissions call to the backend.
C23_State ==
    \A p \in Procs :
        (ap[p].pc = "done" /\ ap[p].op = "perms")
        => /\ ap[p].ncall = 0
           /\ ~ap[p].wrote
           /\ (ap[p].req.user # <<>> /\ ap[p].req.tenant # <<>>) => ap[p].nperm = 1

C23_Step ==
    \A p \in Procs :
        (ap'[p] # ap[p] /\ ap'[p].op = "perms")
        => /\ cache' = cache
           /\ backendCalls' = backendCalls

C23_PermissionsBypassCache == [](C23_State) /\ [][C23_Step]_vars

\* GetPermissions returned the backend's list while the cache held an entry
C23_Witness ==
    \E p \in Procs :
        /\ ap[p].pc = "done" /\ ap[p].op = "perms" /\ ap[p].res.ok
        /\ ap[p].nperm = 1
        /\ cache # EmptyCache
        /\ backendCalls >= 1

\* C24: when ClearCache returns, the cache holds none of the entries it held
\* when ClearCache was called, and a Check of the key of one of them that
\* begins before another call of that goroutine, and before the key is
\* stored again, goes to the backend.
C24_Step ==
    \A p \in Procs :
        /\ (ap[p].pc = "range" /\ ap'[p].pc = "done")
           => \A k \in DOMAIN cache' : \A j \in DOMAIN ap[p].seen0 :
                  cache'[k].cno # ap[p].seen0[j]
        /\ \A q \in Procs \ {p} :
             (/\ ap[p].pc = "done" /\ ap[p].op = "clear"
              /\ ap[q].pc \in {"idle", "done"} /\ ap'[q] # ap[q]
              /\ ap'[q].op \in {"check", "resource"}
              /\ KeyOf(ap'[q].req) \in DOMAIN ap[p].seen0
              /\ ~(/\ KeyOf(ap'[q].req) \in DOMAIN cache
                   /\ cache[KeyOf(ap'[q].req)].cno # ap[p].seen0[KeyOf(ap'[q].req)]))
             => ap'[q].pc = "backend"

C24_ClearRemovesAll == [][C24_Step]_vars

\* ClearCache returned, having found an entry; a Check of the key of that
\* entry, in the tick the entry was stored, found no entry and called the
\* backend: two backend calls in all
C24_Witness ==
    \E p \in Procs : \E q \in Procs \ {p} :
        /\ ap[p].pc = "done" /\ ap[p].op = "clear"
        /\ ap[q].pc = "done" /\ ap[q].op = "check" /\ ap[q].res.ok
        /\ KeyOf(ap[q].req) \in DOMAIN ap[p].seen0
        /\ ap[q].age = NoAge /\ ap[q].ncall = 1
        /\ KeyOf(ap[q].req) \in DOMAIN cache
        /\ cache[KeyOf(ap[q].req)].cno > ap[p].seen0[KeyOf(ap[q].req)]
        /\ now = StartTime
        /\ backendCalls = 2

\* C25: a Check or a GetPermissions without a subject or without a tenant
\* returns an error at once: no backend call, and the cache as it was.
C25_State ==
    \A p \in Procs :
        (/\ ap[p].pc = "done" /\ ap[p].op \in {"check", "perms"}
         /\ (ap[p].req.user = <<>> \/ ap[p].req.tenant = <<>>))
        => /\ ~ap[p].res.ok
           /\ ap[p].ncall = 0
           /\ ap[p].nperm = 0
           /\ ~ap[p].wrote

C25_Step ==
    \A p \in Procs :
        (/\ ap'[p] # ap[p] /\ ap'[p].op \in {"check", "perms"}
         /\ (ap'[p].req.user = <<>> \/ ap'[p].req.tenant = <<>>))
        => /\ ap'[p].pc = "done"
           /\ cache' = cache
           /\ backendCalls' = backendCalls

C25_MissingContextRejected == [](C25_State) /\ [][C25_Step]_vars

\* a Check without a tenant was refused while the cache held an entry
C25_Witness ==
    \E p \in Procs :
        /\ ap[p].pc = "done" /\ ap[p].op = "check" /\ ~ap[p].res.ok
        /\ ap[p].req.user # <<>> /\ ap[p].req.tenant = <<>>
        /\ ap[p].res.err = "user_id and tenant_id required"
        /\ cache # EmptyCache
        /\ backendCalls >= 1

\* C35: a Check that finds no entry of its key goes to the backend,
\* whatever the other goroutines are doing: also while another Check of
\* the same key is between its own miss and its Store.
C35_Step ==
    \A p \in Procs :
        (/\ ap[p].pc \in {"idle", "done"} /\ ap'[p] # ap[p]
         /\ ap'[p].op \in {"check", "resource"}
         /\ ap'[p].req.user # <<>> /\ ap'[p].req.tenant # <<>>
         /\ KeyOf(ap'[p].req) \notin DOMAIN cache)
        => /\ ap'[p].pc = "backend"
           /\ ap'[p].age = NoAge

C35_State ==
    \A p \in Procs :
        (ap[p].pc = "store" /\ ap[p].age = NoAge) => ap[p].ncall = 1

C35_MissesNotCoalesced == [](C35_State) /\ [][C35_Step]_vars

\* the two goroutines, in Checks of one triple that found no entry, have
\* each called the backend, and neither has stored its answer yet
C35_Witness ==
    /\ \A p \in Procs : /\ ap[p].op = "check" /\ ap[p].pc = "store"
                        /\ ap[p].age = NoAge /\ ap[p].ncall = 1
    /\ ap[1].req = ap[2].req
    /\ ap[1].cno # ap[2].cno
    /\ backendCalls = 2

\* C36: the Store of a Check writes its answer under the key with the time
\* of the Store, whatever entry the key holds: also over the answer of a
\* later backend call.
C36_Step ==
    \A p \in Procs :
        (ap[p].pc = "store" /\ ap'[p].pc = "done")
        => LET key == KeyOf(ap[p].req)
           IN  /\ key \in DOMAIN cache'
               /\ cache'[key] = Entry(ap[p].allowed, now, ap[p].req, ap[p].cno)
               /\ \A k \in DOMAIN cache' \ {key} :
                      k \in DOMAIN cache /\ cache'[k] = cache[k]

C36_LastStoreWins == [][C36_Step]_vars

\* a Check has returned the answer of the second backend call, and the
\* cache holds for its key the different answer of the first, stored at
\* this instant
C36_Witness ==
    \E q \in Procs :
        /\ ap[q].op = "check" /\ ap[q].pc = "done" /\ ap[q].res.ok
        /\ ap[q].ncall = 1 /\ ap[q].age = NoAge
        /\ backendCalls = 2
        /\ KeyOf(ap[q].req) \in DOMAIN cache
        /\ cache[KeyOf(ap[q].req)].cno = 1
        /\ cache[KeyOf(ap[q].req)].owner = ap[q].req
        /\ cache[KeyOf(ap[q].req)].allowed # ap[q].res.allowed
        /\ cache[KeyOf(ap[q].req)].timestamp = now

(***************************************************************************)
(* Properties of the Claims made of a payload, checked under SpecClaims.   *)
(***************************************************************************)

\* the value of the claim k of the payload m can be read back from the
\* Claims c: from the typed field of a standard claim, or from Extra
Recoverable(m, c, k) ==
    CASE k = "sub"       -> m[k] = Str(c.Subject)
      [] k = "tenant_id" -> m[k] = Str(c.TenantID)
      [] k = "email"     -> m[k] = Str(c.Email)
      [] k = "iss"       -> m[k] = Str(c.Issuer)
      [] k = "exp"       -> m[k] = Num(c.ExpiresAt)
      [] k = "iat"       -> m[k] = Num(c.IssuedAt)
      [] k = "roles"     -> m[k] = Arr([i \in 1..Len(c.Roles) |-> Str(c.Roles[i])])
      [] OTHER           -> k \in DOMAIN c.Extra /\ c.Extra[k] = m[k]

\* C19: after a successful Verify, the value of every claim the payload
\* carries can be read back from the Claims, from a typed field or from the
\* extension map.
C19_RoundTrip ==
    vout.ok => \A k \in Present(payload) : Recoverable(payload, vout.claims, k)

\* C20: after a successful Verify of a token whose payload carries an email
\* claim, the extension map holds that value under the key "email".
C20_EmailInExtra ==
    (vout.ok /\ payload.email.kind = "string")
    => /\ "email" \in DOMAIN vout.claims.Extra
       /\ vout.claims.Extra["email"] = payload.email

(***************************************************************************)
(* Properties of the tenant service, checked under SpecTenant.             *)
(***************************************************************************)
TDone(p) == tp[p].pc = "done"

\* C29: a failure of the backend's Resolve is cached until the time of the
\* Store plus the TTL, and a Resolve that finds that entry before its expiry
\* returns an error with no backend call.
C29_State ==
    \A p \in Procs :
        (TDone(p) /\ tp[p].neg /\ tp[p].left # NoAge /\ tp[p].left > 0)
        => /\ ~tp[p].res.ok
           /\ tp[p].res.tenant.nil
           /\ tp[p].ncall = 0

C29_Step ==
    \A p \in Procs :
        (tp[p].pc = "store" /\ tp[p].val.nil /\ tp'[p].pc = "done")
        => /\ ResolveKey(tp[p].id) \in DOMAIN tcache'
           /\ tcache'[ResolveKey(tp[p].id)] = TEntry(NilTenant, now + TenantTTL)
           /\ ~tp'[p].res.ok
           /\ resolveCalls' = resolveCalls

C29_FailureCached == [](C29_State) /\ [][C29_Step]_vars

\* one backend call failed, and a later Resolve of the identifier, one tick
\* before the entry expires, got the cached failure
C29_Witness ==
    /\ resolveCalls = 1
    /\ \E p \in Procs :
         /\ TDone(p) /\ tp[p].neg /\ tp[p].left = 1 /\ tp[p].ncall = 0
         /\ tp[p].res.err = "tenant not found (cached)"
         /\ ResolveKey(tp[p].id) \in DOMAIN tcache
         /\ tcache[ResolveKey(tp[p].id)].value.nil

(***************************************************************************)
(* Properties of the three components together, checked under              *)
(* SpecComponents.                                                         *)
(***************************************************************************)

\* the steps a goroutine takes inside a call of each component
KStep(p) ==
    \/ GetKeyLookup(p) \/ GetKeyStale(p) \/ Fetch(p) \/ InstallKeys(p)
    \/ InstallTime(p) \/ Reread(p) \/ Finish(p)

BStep(p) ==
    \/ SfDo(p) \/ Send(p) \/ Receive(p) \/ ExchangeReturn(p) \/ SfDone(p) \/ Store(p)

AStep(p) ==
    \/ CheckDelete(p) \/ CheckPermission(p) \/ CheckStore(p)
    \/ GetPermissionsCall(p) \/ ClearVisit(p) \/ ClearReturn(p)

\* p holds Verifier.mu
KHolds(p) == p \in mu.readers \/ mu.writer = p

====
